---------------------------- MODULE Spec2Model ----------------------------
(***************************************************************************)
(* A model of the diagram engine of mermaid-live-mcp (packages/core):      *)
(* the generateDiagram pipeline (parse, layout, render, optional PNG),     *)
(* the sequence layout, and the sketch SVG renderer with its seeded RNG.   *)
(*                                                                         *)
(* Conventions.                                                            *)
(*  - User strings (ids, labels, titles, colours) are sequences of         *)
(*    one-character strings, so that escaping and wrapping act on          *)
(*    characters.                                                          *)
(*  - Layout quantities are in SVG user units.  The renderer works in      *)
(*    tenths of a unit (the precision of toFixed(1)); a jitter offset is   *)
(*    quantised to tenths.                                                 *)
(*  - An SVG document is a sequence of elements; an element carries its    *)
(*    tag, its static attributes, its geometry numbers, the string values  *)
(*    interpolated into its attributes, and its text content.              *)
(***************************************************************************)
EXTENDS Integers, Sequences, FiniteSets, TLC

VARIABLES
    seed,      \* svg-renderer.ts: the module-level RNG state
    hist,      \* the top-level renders made so far: input and returned SVG
    calls,     \* the generateDiagram calls: position, input, result
    svcLog,    \* the layout service invocations, in order (call ids)
    diagrams,        \* MCP server: the diagram store, in insertion order
    nextId,          \* MCP server: the counter of generateId
    previewServers,  \* MCP server: the entries of the preview servers by diagram id
    servers,         \* the preview servers that were started
    fileSystem,      \* the directories and files on disk
    toolCalls,       \* MCP server: the tool calls made, with their results
    running          \* MCP server: the process has not been shut down

coreVars == <<seed, hist, calls, svcLog>>
mcpVars == <<diagrams, nextId, previewServers, servers, fileSystem, toolCalls,
            running>>
vars == <<seed, hist, calls, svcLog, diagrams, nextId, previewServers, servers,
          fileSystem, toolCalls, running>>

(***************************************************************************)
(* Bounds of the model.                                                    *)
(***************************************************************************)
MaxRenders == 2
MaxCalls == 2

(***************************************************************************)
(* Generic helpers.                                                        *)
(***************************************************************************)
Max(a, b) == IF a >= b THEN a ELSE b
Min(a, b) == IF a <= b THEN a ELSE b

RECURSIVE Concat(_)
Concat(ss) == IF ss = <<>> THEN <<>> ELSE Head(ss) \o Concat(Tail(ss))

\* "const v = ...;" followed by the statements K that use v: v is computed
\* once, whatever the number of its uses in K
Bind(v, K(_)) == K(v)

\* seq contains sub as a contiguous subsequence
Contains(seq, sub) ==
    \E i \in 0..(Len(seq) - Len(sub)) :
        \A j \in 1..Len(sub) : seq[i + j] = sub[j]

(***************************************************************************)
(* svg-renderer.ts: the seeded RNG.                                        *)
(***************************************************************************)
SEED0 == 42
RNG_MUL == 16807
RNG_MOD == 2147483647

resetSeedNoop(s) == s

resetSeed(s) == SEED0

\* a generator whose modulus is a multiple of its multiplier: from 42 the
\* state is 0 after one draw and stays 0
pseudoRandomStuck(s) == (s * RNG_MUL) % (RNG_MUL * 6)

\* (s * 16807) % 2147483647, computed without leaving 32 bits (Schrage):
\* 2147483647 = 16807 * 127773 + 2836.
pseudoRandom(s) ==
    LET q == RNG_MOD \div RNG_MUL
        r == RNG_MOD % RNG_MUL
        t == RNG_MUL * (s % q) - r * (s \div q)
    IN  IF t < 0 THEN t + RNG_MOD ELSE t

\* (pseudoRandom() - 0.5) * 2 * amount in tenths, amount itself in tenths:
\* the draw (s - 1) / 2147483646 falls in one of 2 * amount10 equal buckets.
jitterOffset(s, amount10) ==
    LET buckets == 2 * amount10
        width == (RNG_MOD - 1) \div buckets
    IN  Min((s - 1) \div width, buckets - 1) - amount10

\* jitter(value, amount): no draw when amount is 0.
\* a jitter that draws a number even when the amount is 0
jitterAlwaysDraws(value, amount10, s) ==
    Bind(pseudoRandom(s), LAMBDA s2 :
        [v |-> IF amount10 = 0 THEN value ELSE value + jitterOffset(s2, amount10),
         s |-> s2])

jitter(value, amount10, s) ==
    IF amount10 = 0
    THEN [v |-> value, s |-> s]
    ELSE Bind(pseudoRandom(s), LAMBDA s2 :
             [v |-> value + jitterOffset(s2, amount10), s |-> s2])

\* Consecutive jitter calls, in evaluation order: vals[i] with amount amts[i].
\* The calls for the first half of vals come before those for the second.
RECURSIVE jitterAll(_, _, _)
jitterAll(vals, amts, s) ==
    IF vals = <<>>
    THEN [vs |-> <<>>, s |-> s]
    ELSE IF Len(vals) = 1
    THEN Bind(jitter(vals[1], amts[1], s), LAMBDA j : [vs |-> <<j.v>>, s |-> j.s])
    ELSE Bind(Len(vals) \div 2, LAMBDA h :
         Bind(jitterAll(SubSeq(vals, 1, h), SubSeq(amts, 1, h), s), LAMBDA fst :
         Bind(jitterAll(SubSeq(vals, h + 1, Len(vals)), SubSeq(amts, h + 1, Len(vals)),
                        fst.s), LAMBDA snd :
             [vs |-> fst.vs \o snd.vs, s |-> snd.s])))

Rep(n, a) == [i \in 1..n |-> a]

\* jitterPoint(x, y, amount) for each of the points pts (x then y).
jitterPoints(pts, amount10, s) ==
    Bind(jitterAll(Concat([i \in 1..Len(pts) |-> <<pts[i][1], pts[i][2]>>]),
                   Rep(2 * Len(pts), amount10), s), LAMBDA j :
        [ps |-> [i \in 1..Len(pts) |-> <<j.vs[2 * i - 1], j.vs[2 * i]>>],
         s |-> j.s])

(***************************************************************************)
(* svg-renderer.ts: theme configuration.  strokeWidth and fillOpacity in   *)
(* hundredths, jitterAmount in tenths.                                     *)
(***************************************************************************)
Themes == {"hand-drawn", "clean", "minimal"}

getThemeConfig(theme) ==
    CASE theme = "hand-drawn" ->
            [strokeWidth |-> 150, jitterAmount |-> 20, fillOpacity |-> 15,
             fontFamily |-> "cursive", doubleStroke |-> TRUE, cornerRadius |-> 0]
      [] theme = "clean" ->
            [strokeWidth |-> 150, jitterAmount |-> 0, fillOpacity |-> 10,
             fontFamily |-> "sans-serif", doubleStroke |-> FALSE, cornerRadius |-> 3]
      [] theme = "minimal" ->
            [strokeWidth |-> 100, jitterAmount |-> 0, fillOpacity |-> 5,
             fontFamily |-> "sans-serif", doubleStroke |-> FALSE, cornerRadius |-> 3]

(***************************************************************************)
(* svg-renderer.ts: XML escaping and text.                                 *)
(***************************************************************************)
S_amp == <<"&", "a", "m", "p", ";">>
S_lt == <<"&", "l", "t", ";">>
S_gt == <<"&", "g", "t", ";">>
S_quot == <<"&", "q", "u", "o", "t", ";">>
S_apos == <<"&", "a", "p", "o", "s", ";">>

\* str.replace(/ch/g, by)
replaceAll(str, ch, by) ==
    Concat([i \in 1..Len(str) |-> IF str[i] = ch THEN by ELSE <<str[i]>>])

escapeXmlAmpLast(str) ==
    replaceAll(replaceAll(replaceAll(replaceAll(replaceAll(str,
        "<", S_lt), ">", S_gt), "\"", S_quot), "'", S_apos), "&", S_amp)

escapeXml(str) ==
    replaceAll(replaceAll(replaceAll(replaceAll(replaceAll(str,
        "&", S_amp), "<", S_lt), ">", S_gt), "\"", S_quot), "'", S_apos)

IsSpace(ch) == ch = " "

\* text.split(/\s+/): the pieces between maximal runs of whitespace; a
\* leading or trailing run leaves an empty piece.
RECURSIVE splitWs(_, _, _)
splitWs(text, i, cur) ==
    IF i > Len(text) THEN <<cur>>
    ELSE IF IsSpace(text[i])
         THEN IF i > 1 /\ IsSpace(text[i - 1])
              THEN splitWs(text, i + 1, cur)
              ELSE <<cur>> \o splitWs(text, i + 1, <<>>)
         ELSE splitWs(text, i + 1, Append(cur, text[i]))

\* the loop of wrapText over words[i..]
RECURSIVE wrapWords(_, _, _, _)
wrapWords(words, i, currentLine, maxCharsPerLine) ==
    IF i > Len(words)
    THEN IF Len(currentLine) > 0 THEN <<currentLine>> ELSE <<>>
    ELSE LET word == words[i]
         IN  IF Len(currentLine) = 0
             THEN wrapWords(words, i + 1, word, maxCharsPerLine)
             ELSE IF Len(currentLine) + 1 + Len(word) <= maxCharsPerLine
                  THEN wrapWords(words, i + 1, currentLine \o <<" ">> \o word,
                                 maxCharsPerLine)
                  ELSE <<currentLine>> \o
                       wrapWords(words, i + 1, word, maxCharsPerLine)

\* a wrapText that breaks a word longer than the line
wrapTextHardBreak(text, maxCharsPerLine) ==
    IF Len(text) <= maxCharsPerLine
    THEN <<text>>
    ELSE [i \in 1..((Len(text) + maxCharsPerLine - 1) \div maxCharsPerLine) |->
            SubSeq(text, (i - 1) * maxCharsPerLine + 1,
                   Min(i * maxCharsPerLine, Len(text)))]

wrapText(text, maxCharsPerLine) ==
    IF Len(text) <= maxCharsPerLine
    THEN <<text>>
    ELSE wrapWords(splitWs(text, 1, <<>>), 1, <<>>, maxCharsPerLine)

\* An SVG element.
El(tag, attrs, nums, sty, strs, txt) ==
    [tag |-> tag, attrs |-> attrs, nums |-> nums, sty |-> sty,
     strs |-> strs, txt |-> txt]

WRAP_THRESHOLD == 20
DEFAULT_MAX_CHARS == 18
LINE_HEIGHT_13 == 13

\* renderText: x, y in tenths.  The colour is interpolated as given.
renderText(x, y, text, fontSize, fontFamily, color, bold, maxChars) ==
    IF Len(text) > WRAP_THRESHOLD
    THEN Bind(wrapText(text, maxChars), LAMBDA lines :
             LET lineHeight == fontSize * LINE_HEIGHT_13
                 totalHeight == (Len(lines) - 1) * lineHeight
                 startY == y - (totalHeight \div 2)
             IN  <<El("text", <<"text-anchor=middle", fontFamily>> \o bold,
                      <<x, startY>>, <<fontSize>>, <<color>>, <<>>)>> \o
                 [i \in 1..Len(lines) |->
                     El("tspan", <<>>, <<x, IF i = 1 THEN 0 ELSE lineHeight>>,
                        <<>>, <<>>, escapeXml(lines[i]))])
    ELSE <<El("text", <<"text-anchor=middle", fontFamily>> \o bold,
              <<x, y>>, <<fontSize>>, <<color>>, escapeXml(text))>>

\* .replace('text-anchor="middle"', 'text-anchor="start"') on a rendered text
anchorStart(els) ==
    [i \in 1..Len(els) |->
        IF i = 1
        THEN [els[i] EXCEPT !.attrs = <<"text-anchor=start">> \o Tail(@)]
        ELSE els[i]]

(***************************************************************************)
(* svg-renderer.ts: colours.  An optional field is <<>> when absent and    *)
(* <<value>> when present.                                                 *)
(***************************************************************************)
None == <<>>
Some(v) == <<v>>
OrElse(opt, dflt) == IF opt = <<>> THEN dflt ELSE opt[1]

PALETTE ==
    << <<"#", "4", "E", "C", "D", "C", "4">>, <<"#", "F", "F", "6", "B", "6", "B">>,
       <<"#", "4", "5", "B", "7", "D", "1">>, <<"#", "9", "6", "C", "E", "B", "4">>,
       <<"#", "F", "F", "E", "A", "A", "7">>, <<"#", "D", "D", "A", "0", "D", "D">>,
       <<"#", "9", "8", "D", "8", "C", "8">>, <<"#", "F", "7", "D", "C", "6", "F">>,
       <<"#", "B", "B", "8", "F", "C", "E">>, <<"#", "8", "5", "C", "1", "E", "9">> >>

C_333 == <<"#", "3", "3", "3", "3", "3", "3">>
C_666 == <<"#", "6", "6", "6", "6", "6", "6">>
C_999 == <<"#", "9", "9", "9", "9", "9", "9">>
C_AAA == <<"#", "A", "A", "A", "A", "A", "A">>
C_F5 == <<"#", "F", "5", "F", "5", "F", "5">>
C_NaN == <<"N", "a", "N">>

HexLower == <<"0", "1", "2", "3", "4", "5", "6", "7", "8", "9",
              "a", "b", "c", "d", "e", "f">>
HexUpper == <<"0", "1", "2", "3", "4", "5", "6", "7", "8", "9",
              "A", "B", "C", "D", "E", "F">>

\* the value of a hexadecimal digit, -1 for any other character
hexVal(ch) ==
    IF \E i \in 1..16 : HexLower[i] = ch \/ HexUpper[i] = ch
    THEN (CHOOSE i \in 1..16 : HexLower[i] = ch \/ HexUpper[i] = ch) - 1
    ELSE -1

\* parseInt(cleaned.substring(from, from + 2), 16): the longest prefix of
\* hexadecimal digits, NaN (-1) when there is none.
parseHex2(cleaned, from) ==
    LET d1 == IF from + 1 <= Len(cleaned) THEN hexVal(cleaned[from + 1]) ELSE -1
        d2 == IF from + 2 <= Len(cleaned) THEN hexVal(cleaned[from + 2]) ELSE -1
    IN  IF d1 < 0 THEN -1 ELSE IF d2 < 0 THEN d1 ELSE 16 * d1 + d2

\* hex.replace("#", ""): the first "#" only
dropFirstHash(hex) ==
    IF \E i \in 1..Len(hex) : hex[i] = "#"
    THEN LET k == CHOOSE i \in 1..Len(hex) :
                     hex[i] = "#" /\ \A j \in 1..(i - 1) : hex[j] # "#"
         IN  SubSeq(hex, 1, k - 1) \o SubSeq(hex, k + 1, Len(hex))
    ELSE hex

\* Math.max(0, Math.round(c * (1 - 0.3))).toString(16).padStart(2, "0")
darkenChannel(c) ==
    IF c < 0 THEN C_NaN
    ELSE LET d == Max(0, (c * 7 + 5) \div 10)
         IN  <<HexLower[(d \div 16) + 1], HexLower[(d % 16) + 1]>>

darkenColor(hex) ==
    LET cleaned == dropFirstHash(hex)
    IN  <<"#">> \o darkenChannel(parseHex2(cleaned, 0))
               \o darkenChannel(parseHex2(cleaned, 2))
               \o darkenChannel(parseHex2(cleaned, 4))

getDashArray(style) ==
    CASE style = "solid" -> <<>>
      [] style = "dashed" -> <<"stroke-dasharray=8,4">>
      [] style = "dotted" -> <<"stroke-dasharray=3,3">>

(***************************************************************************)
(* svg-renderer.ts: sketchy lines.  Every render operator takes the RNG    *)
(* state s and returns its elements with the RNG state it leaves.          *)
(***************************************************************************)
sketchyLine(x1, y1, x2, y2, config, strokeColor, dash, s) ==
    LET a == config.jitterAmount
        a3 == (a * 3) \div 10
        mx == (x1 + x2) \div 2
        my == (y1 + y2) \div 2
        \* the curve through the jittered start, midpoint and end
        curve(j) == <<j.vs[3], j.vs[4], j.vs[1], j.vs[2], j.vs[5], j.vs[6]>>
    IN  IF a > 0
        THEN Bind(jitterAll(<<mx, my, x1, y1, x2, y2>>,
                            <<a, a, a \div 2, a \div 2, a \div 2, a \div 2>>, s),
                  LAMBDA j1 :
             Bind(El("path", <<"fill=none", "stroke-linecap=round">> \o dash,
                     curve(j1), <<config.strokeWidth>>, <<strokeColor>>, <<>>),
                  LAMBDA p1 :
             IF config.doubleStroke
             THEN Bind(jitterAll(<<mx, my, x1, y1, x2, y2>>,
                                 <<a, a, a3, a3, a3, a3>>, j1.s), LAMBDA j2 :
                  [out |-> <<p1,
                             El("path",
                                <<"fill=none", "stroke-linecap=round", "opacity=0.3">>
                                    \o dash,
                                curve(j2), <<config.strokeWidth \div 2>>,
                                <<strokeColor>>, <<>>)>>,
                   s |-> j2.s])
             ELSE [out |-> <<p1>>, s |-> j1.s]))
        ELSE [out |-> <<El("line", <<"stroke-linecap=round">> \o dash,
                           <<x1, y1, x2, y2>>, <<config.strokeWidth>>,
                           <<strokeColor>>, <<>>)>>,
              s |-> s]

\* sketchyLine for each segment <<x1, y1, x2, y2>> of segs, in order
RECURSIVE sketchyLines(_, _, _, _, _)
sketchyLines(segs, config, strokeColor, dash, s) ==
    IF segs = <<>>
    THEN [out |-> <<>>, s |-> s]
    ELSE Bind(sketchyLine(Head(segs)[1], Head(segs)[2], Head(segs)[3], Head(segs)[4],
                          config, strokeColor, dash, s), LAMBDA l :
         Bind(sketchyLines(Tail(segs), config, strokeColor, dash, l.s), LAMBDA rest :
             [out |-> l.out \o rest.out, s |-> rest.s]))

sketchyPolyline(points, config, strokeColor, dash, s) ==
    IF Len(points) < 2
    THEN [out |-> <<>>, s |-> s]
    ELSE sketchyLines([i \in 1..(Len(points) - 1) |->
                          <<points[i][1], points[i][2],
                            points[i + 1][1], points[i + 1][2]>>],
                      config, strokeColor, dash, s)

\* the sides of the closed polygon through ps
ring(ps) ==
    [i \in 1..Len(ps) |->
        <<ps[i][1], ps[i][2], ps[(i % Len(ps)) + 1][1], ps[(i % Len(ps)) + 1][2]>>]

flatten(ps) == Concat([i \in 1..Len(ps) |-> <<ps[i][1], ps[i][2]>>])

\* a polygonal body that takes the fill-path form in every theme
sketchyPolygonAlwaysPath(corners, fillColor, strokeColor, config, s) ==
    Bind(jitterPoints(corners, config.jitterAmount, s), LAMBDA jp :
    Bind(sketchyLines(ring(jp.ps), config, strokeColor, <<>>, jp.s), LAMBDA edges :
        [out |-> <<El("path", <<"stroke=none">>, flatten(jp.ps),
                      <<config.fillOpacity>>, <<fillColor>>, <<>>)>> \o edges.out,
         s |-> edges.s]))

\* the common body of the polygonal shapes: jittered corners, then either a
\* fill path with sketchy sides or a native polygon
sketchyPolygon(corners, fillColor, strokeColor, config, s) ==
    Bind(jitterPoints(corners, config.jitterAmount, s), LAMBDA jp :
        IF config.jitterAmount > 0
        THEN Bind(sketchyLines(ring(jp.ps), config, strokeColor, <<>>, jp.s),
                  LAMBDA edges :
                 [out |-> <<El("path", <<"stroke=none">>, flatten(jp.ps),
                               <<config.fillOpacity>>, <<fillColor>>, <<>>)>>
                          \o edges.out,
                  s |-> edges.s])
        ELSE [out |-> <<El("polygon", <<>>, flatten(jp.ps),
                           <<config.fillOpacity, config.strokeWidth>>,
                           <<fillColor, strokeColor>>, <<>>)>>,
              s |-> jp.s])

(***************************************************************************)
(* svg-renderer.ts: the seven shapes.  x, y, width, height in tenths.      *)
(***************************************************************************)
Pct(v, pct) == (v * pct) \div 100

renderRectangle(x, y, width, height, fillColor, strokeColor, config, s) ==
    IF config.jitterAmount > 0
    THEN Bind(jitterPoints(<< <<x, y>>, <<x + width, y>>,
                                <<x + width, y + height>>, <<x, y + height>> >>,
                           config.jitterAmount, s), LAMBDA jp :
         Bind(sketchyLines(ring(jp.ps), config, strokeColor, <<>>, jp.s),
              LAMBDA edges :
             [out |-> <<El("path", <<"stroke=none">>, flatten(jp.ps),
                           <<config.fillOpacity>>, <<fillColor>>, <<>>)>>
                      \o edges.out,
              s |-> edges.s]))
    ELSE [out |-> <<El("rect", <<>>, <<x, y, width, height>>,
                       <<config.cornerRadius, config.fillOpacity, config.strokeWidth>>,
                       <<fillColor, strokeColor>>, <<>>)>>,
          s |-> s]

\* cos and sin of i/8 of a turn, times 10000
COS8 == <<10000, 7071, 0, -7071, -10000, -7071, 0, 7071>>
SIN8 == <<0, 7071, 10000, 7071, 0, -7071, -10000, -7071>>
ELLIPSE_SEGMENTS == 8

renderEllipse(cx, cy, rx, ry, fillColor, strokeColor, config, s) ==
    LET a == config.jitterAmount
        n == ELLIPSE_SEGMENTS
    IN  IF a > 0
        THEN Bind(jitterPoints(
                     [i \in 1..n |-> <<(rx * COS8[i]) \div 10000,
                                       (ry * SIN8[i]) \div 10000>>], a, s),
                  LAMBDA jp :
             Bind([i \in 1..n |-> <<cx + jp.ps[i][1], cy + jp.ps[i][2]>>],
                  LAMBDA pts :
             Bind([i \in 1..n |-> pts[(i % n) + 1]], LAMBDA nxt :
             \* per segment: cpx1, cpy1, cpx2, cpy2
             Bind(jitterAll(
                     Concat([i \in 1..n |->
                         <<((nxt[i][1] - pts[i][1]) * 4) \div 10,
                           ((nxt[i][2] - pts[i][2]) * 4) \div 10,
                           ((nxt[i][1] - pts[i][1]) * 4) \div 10,
                           ((nxt[i][2] - pts[i][2]) * 4) \div 10>>]),
                     Rep(4 * n, a \div 2), jp.s), LAMBDA jc :
             Bind(<<pts[1][1], pts[1][2]>> \o
                     Concat([i \in 1..n |->
                         <<pts[i][1] + jc.vs[4 * i - 3], pts[i][2] + jc.vs[4 * i - 2],
                           nxt[i][1] - jc.vs[4 * i - 1], nxt[i][2] - jc.vs[4 * i],
                           nxt[i][1], nxt[i][2]>>]), LAMBDA path :
             Bind(El("path", <<"stroke-linecap=round">>, path,
                     <<config.fillOpacity, config.strokeWidth>>,
                     <<fillColor, strokeColor>>, <<>>), LAMBDA p1 :
             IF config.doubleStroke
             THEN Bind(jitterAll(<<0, 0>>, <<(a * 4) \div 10, (a * 4) \div 10>>, jc.s),
                       LAMBDA jo :
                  [out |-> <<p1,
                             El("path",
                                <<"fill=none", "stroke-linecap=round", "opacity=0.3">>,
                                path \o jo.vs, <<config.strokeWidth \div 2>>,
                                <<strokeColor>>, <<>>)>>,
                   s |-> jo.s])
             ELSE [out |-> <<p1>>, s |-> jc.s]))))))
        ELSE [out |-> <<El("ellipse", <<>>, <<cx, cy, rx, ry>>,
                           <<config.fillOpacity, config.strokeWidth>>,
                           <<fillColor, strokeColor>>, <<>>)>>,
              s |-> s]

renderDiamond(x, y, width, height, fillColor, strokeColor, config, s) ==
    LET cx == x + (width \div 2)
        cy == y + (height \div 2)
    IN  sketchyPolygon(<< <<cx, y>>, <<x + width, cy>>, <<cx, y + height>>, <<x, cy>> >>,
                       fillColor, strokeColor, config, s)

CYL_MAX_RY == 150

renderCylinder(x, y, width, height, fillColor, strokeColor, config, s) ==
    LET cx == x + (width \div 2)
        ellipseRy == Min(CYL_MAX_RY, Pct(height, 15))
        bodyTop == y + ellipseRy
        bodyBottom == y + height - ellipseRy
        rx == width \div 2
        body == El("rect", <<"stroke=none">>,
                   <<x, bodyTop, width, bodyBottom - bodyTop>>,
                   <<config.fillOpacity>>, <<fillColor>>, <<>>)
    IN  IF config.jitterAmount > 0
        THEN Bind(renderEllipse(cx, bodyBottom, rx, ellipseRy,
                                fillColor, strokeColor, config, s), LAMBDA e1 :
             Bind(sketchyLine(x, bodyTop, x, bodyBottom, config,
                              strokeColor, <<>>, e1.s), LAMBDA l1 :
             Bind(sketchyLine(x + width, bodyTop, x + width, bodyBottom, config,
                              strokeColor, <<>>, l1.s), LAMBDA l2 :
             Bind(renderEllipse(cx, bodyTop, rx, ellipseRy,
                                fillColor, strokeColor, config, l2.s), LAMBDA e2 :
                 [out |-> <<body>> \o e1.out \o l1.out \o l2.out \o e2.out,
                  s |-> e2.s]))))
        ELSE [out |->
                <<body,
                  El("ellipse", <<>>, <<cx, bodyBottom, rx, ellipseRy>>,
                     <<config.fillOpacity, config.strokeWidth>>,
                     <<fillColor, strokeColor>>, <<>>),
                  El("line", <<>>, <<x, bodyTop, x, bodyBottom>>,
                     <<config.strokeWidth>>, <<strokeColor>>, <<>>),
                  El("line", <<>>, <<x + width, bodyTop, x + width, bodyBottom>>,
                     <<config.strokeWidth>>, <<strokeColor>>, <<>>),
                  El("ellipse", <<>>, <<cx, bodyTop, rx, ellipseRy>>,
                     <<config.fillOpacity, config.strokeWidth>>,
                     <<fillColor, strokeColor>>, <<>>)>>,
              s |-> s]

CLOUD_DOUBLE_JITTER == 10

\* The cloud is one path in every theme: with jitterAmount 0 the jitter
\* calls draw nothing and the same path is emitted unperturbed.
renderCloud(x, y, width, height, fillColor, strokeColor, config, s) ==
    LET j == config.jitterAmount
        cx == x + (width \div 2)
        cy == y + (height \div 2)
        w(p) == x + Pct(width, p)
        h(p) == y + Pct(height, p)
    IN  \* top, tr, right, br, bottom, bl, left, tl
        Bind(jitterPoints(
                << <<cx, h(15)>>, <<w(82), h(25)>>, <<w(92), cy + Pct(height, 5)>>,
                   <<w(80), h(80)>>, <<cx, h(88)>>, <<w(20), h(80)>>,
                   <<w(8), cy + Pct(height, 5)>>, <<w(18), h(25)>> >>, j, s),
             LAMBDA an :
        \* the two control points of each of the eight curves
        Bind(jitterPoints(
                << <<w(60), y - Pct(height, 5)>>, <<w(90), h(5)>>,
                   <<w(105), h(25)>>, <<w(102), h(55)>>,
                   <<w(100), h(75)>>, <<w(90), h(90)>>,
                   <<w(65), h(98)>>, <<w(35), h(98)>>,
                   <<w(30), h(95)>>, <<w(10), h(90)>>,
                   <<x - Pct(width, 2), h(75)>>, <<x - Pct(width, 2), h(55)>>,
                   <<x - Pct(width, 5), h(25)>>, <<w(10), h(5)>>,
                   <<w(25), y - Pct(height, 5)>>, <<w(40), y - Pct(height, 5)>> >>,
                j, an.s), LAMBDA cp :
        Bind(an.ps[1] \o
                Concat([i \in 1..8 |->
                    cp.ps[2 * i - 1] \o cp.ps[2 * i] \o an.ps[(i % 8) + 1]]),
             LAMBDA path :
        Bind(El("path", <<"stroke-linecap=round", "stroke-linejoin=round">>, path,
                <<config.fillOpacity, config.strokeWidth>>,
                <<fillColor, strokeColor>>, <<>>), LAMBDA p1 :
        IF config.doubleStroke
        THEN Bind(jitterAll(<<0, 0>>, <<CLOUD_DOUBLE_JITTER, CLOUD_DOUBLE_JITTER>>,
                            cp.s), LAMBDA jo :
             [out |-> <<p1,
                        El("path",
                           <<"fill=none", "stroke-linecap=round", "opacity=0.2">>,
                           path \o jo.vs, <<config.strokeWidth \div 2>>,
                           <<strokeColor>>, <<>>)>>,
              s |-> jo.s])
        ELSE [out |-> <<p1>>, s |-> cp.s]))))

renderHexagon(x, y, width, height, fillColor, strokeColor, config, s) ==
    LET cy == y + (height \div 2)
        inset == Pct(width, 25)
    IN  sketchyPolygon(<< <<x + inset, y>>, <<x + width - inset, y>>,
                          <<x + width, cy>>, <<x + width - inset, y + height>>,
                          <<x + inset, y + height>>, <<x, cy>> >>,
                       fillColor, strokeColor, config, s)

PARA_SKEW == 150

renderParallelogram(x, y, width, height, fillColor, strokeColor, config, s) ==
    sketchyPolygon(<< <<x + PARA_SKEW, y>>, <<x + width, y>>,
                      <<x + width - PARA_SKEW, y + height>>, <<x, y + height>> >>,
                   fillColor, strokeColor, config, s)

Shapes == {"rectangle", "ellipse", "diamond", "cylinder", "cloud", "hexagon",
           "parallelogram"}

\* the switch of renderShape: the body of the shape
shapeBody(shape, x, y, width, height, fillColor, strokeColor, config, s) ==
    CASE shape = "rectangle" ->
            renderRectangle(x, y, width, height, fillColor, strokeColor, config, s)
      [] shape = "ellipse" ->
            renderEllipse(x + (width \div 2), y + (height \div 2),
                          width \div 2, height \div 2,
                          fillColor, strokeColor, config, s)
      [] shape = "diamond" ->
            renderDiamond(x, y, width, height, fillColor, strokeColor, config, s)
      [] shape = "cylinder" ->
            renderCylinder(x, y, width, height, fillColor, strokeColor, config, s)
      [] shape = "cloud" ->
            renderCloud(x, y, width, height, fillColor, strokeColor, config, s)
      [] shape = "hexagon" ->
            renderHexagon(x, y, width, height, fillColor, strokeColor, config, s)
      [] shape = "parallelogram" ->
            renderParallelogram(x, y, width, height, fillColor, strokeColor, config, s)
      [] OTHER ->
            renderRectangle(x, y, width, height, fillColor, strokeColor, config, s)

NODE_FONT == 14
EDGE_FONT == 12
PARTICIPANT_FONT == 13
TITLE_FONT == 18

\* renderShape: node with x, y, width, height in layout units
renderShape(node, config, colorIndex, s) ==
    LET fillColor == OrElse(node.color, PALETTE[(colorIndex % Len(PALETTE)) + 1])
        strokeColor == darkenColor(fillColor)
        textColor == OrElse(node.textColor, C_333)
        x == node.x * 10
        y == node.y * 10
        width == node.width * 10
        height == node.height * 10
        textX == x + (width \div 2)
        textY == y + (height \div 2) +
                 (IF node.shape = "cylinder"
                  THEN Min(CYL_MAX_RY, Pct(height, 15)) \div 2
                  ELSE IF node.shape = "cloud" THEN Pct(height, 4) ELSE 0)
        label == renderText(textX, textY, node.label, NODE_FONT, config.fontFamily,
                            textColor, <<>>, DEFAULT_MAX_CHARS)
    IN  Bind(shapeBody(node.shape, x, y, width, height,
                       fillColor, strokeColor, config, s), LAMBDA body :
            [out |-> <<El("g", <<"class=node">>, <<>>, <<>>,
                          <<escapeXml(node.id)>>, <<>>)>>
                     \o body.out \o label
                     \o <<El("/g", <<>>, <<>>, <<>>, <<>>, <<>>)>>,
             s |-> body.s])

(***************************************************************************)
(* svg-renderer.ts: arrowheads, edges, groups, title.                      *)
(***************************************************************************)
\* the integer square root, by Newton's iteration from above
RECURSIVE isqrtFrom(_, _)
isqrtFrom(n, g) ==
    LET g2 == (g + (n \div g)) \div 2
    IN  IF g2 >= g THEN g ELSE isqrtFrom(n, g2)

isqrt(n) == IF n <= 0 THEN 0 ELSE isqrtFrom(n, n)

ARROW_SIZE == 100
\* cos and sin of 0.82 * pi, times 1000
ARROW_COS == -844
ARROW_SIN == 536

\* the arrowhead drawn at the other end of the segment, pointing back
renderArrowheadAtBase(tipX, tipY, fromX, fromY, color, config, s) ==
    LET dx == fromX - tipX
        dy == fromY - tipY
        a == config.jitterAmount
        a3 == (a * 3) \div 10
    IN  Bind(isqrt(dx * dx + dy * dy), LAMBDA len :
        \* the direction of the segment, in thousandths (atan2(0, 0) = 0)
        Bind(IF len = 0 THEN 1000 ELSE (dx * 1000) \div len, LAMBDA ux :
        Bind(IF len = 0 THEN 0 ELSE (dy * 1000) \div len, LAMBDA uy :
        \* tip + size * cos(angle +- 0.82 pi), tip + size * sin(angle +- 0.82 pi)
        Bind(jitterAll(
                <<fromX + ((ARROW_SIZE * (ux * ARROW_COS - uy * ARROW_SIN)) \div 1000000),
                  fromY + ((ARROW_SIZE * (uy * ARROW_COS + ux * ARROW_SIN)) \div 1000000),
                  fromX + ((ARROW_SIZE * (ux * ARROW_COS + uy * ARROW_SIN)) \div 1000000),
                  fromY + ((ARROW_SIZE * (uy * ARROW_COS - ux * ARROW_SIN)) \div 1000000),
                  fromX, fromY>>,
                <<a \div 2, a \div 2, a \div 2, a \div 2, a3, a3>>, s), LAMBDA j :
            [out |-> <<El("polygon", <<"stroke-linejoin=round">>,
                          <<j.vs[5], j.vs[6], j.vs[1], j.vs[2], j.vs[3], j.vs[4]>>,
                          <<config.strokeWidth \div 2>>, <<color, color>>, <<>>)>>,
             s |-> j.s]))))

renderArrowhead(tipX, tipY, fromX, fromY, color, config, s) ==
    LET dx == tipX - fromX
        dy == tipY - fromY
        a == config.jitterAmount
        a3 == (a * 3) \div 10
    IN  Bind(isqrt(dx * dx + dy * dy), LAMBDA len :
        \* the direction of the segment, in thousandths (atan2(0, 0) = 0)
        Bind(IF len = 0 THEN 1000 ELSE (dx * 1000) \div len, LAMBDA ux :
        Bind(IF len = 0 THEN 0 ELSE (dy * 1000) \div len, LAMBDA uy :
        \* tip + size * cos(angle +- 0.82 pi), tip + size * sin(angle +- 0.82 pi)
        Bind(jitterAll(
                <<tipX + ((ARROW_SIZE * (ux * ARROW_COS - uy * ARROW_SIN)) \div 1000000),
                  tipY + ((ARROW_SIZE * (uy * ARROW_COS + ux * ARROW_SIN)) \div 1000000),
                  tipX + ((ARROW_SIZE * (ux * ARROW_COS + uy * ARROW_SIN)) \div 1000000),
                  tipY + ((ARROW_SIZE * (uy * ARROW_COS - ux * ARROW_SIN)) \div 1000000),
                  tipX, tipY>>,
                <<a \div 2, a \div 2, a \div 2, a \div 2, a3, a3>>, s), LAMBDA j :
            [out |-> <<El("polygon", <<"stroke-linejoin=round">>,
                          <<j.vs[5], j.vs[6], j.vs[1], j.vs[2], j.vs[3], j.vs[4]>>,
                          <<config.strokeWidth \div 2>>, <<color, color>>, <<>>)>>,
             s |-> j.s]))))

\* a string is truthy when present and not empty
Truthy(opt) == opt # <<>> /\ opt[1] # <<>>

LABEL_CHAR_W == 7
LABEL_PAD == 12
LABEL_MIN_W == 30
EDGE_LABEL_H == 20
MSG_LABEL_H == 18

labelWidth10(label) == Max(Len(label) * LABEL_CHAR_W + LABEL_PAD, LABEL_MIN_W) * 10

labelBackground(mx, top, width, height) ==
    El("rect", <<"fill=white", "stroke=none">>, <<mx - (width \div 2), top, width, height>>,
       <<>>, <<>>, <<>>)

GClose == El("/g", <<>>, <<>>, <<>>, <<>>, <<>>)

renderEdge(edge, config, s) ==
    LET n == Len(edge.points)
        strokeColor == OrElse(edge.color, C_666)
        mid == n \div 2
    IN  IF n < 2
        THEN [out |-> <<>>, s |-> s]
        ELSE
        Bind([i \in 1..n |-> <<edge.points[i][1] * 10, edge.points[i][2] * 10>>],
             LAMBDA points :
        Bind(sketchyPolyline(points, config, strokeColor, getDashArray(edge.style), s),
             LAMBDA line :
        Bind(IF edge.direction \in {"forward", "both"}
             THEN renderArrowhead(points[n][1], points[n][2],
                                  points[n - 1][1], points[n - 1][2],
                                  strokeColor, config, line.s)
             ELSE [out |-> <<>>, s |-> line.s], LAMBDA fwd :
        Bind(IF edge.direction \in {"backward", "both"}
             THEN renderArrowhead(points[1][1], points[1][2],
                                  points[2][1], points[2][2],
                                  strokeColor, config, fwd.s)
             ELSE [out |-> <<>>, s |-> fwd.s], LAMBDA bwd :
        Bind(IF n % 2 = 0 THEN (points[mid][1] + points[mid + 1][1]) \div 2
             ELSE points[mid + 1][1], LAMBDA mx :
        Bind(IF n % 2 = 0 THEN (points[mid][2] + points[mid + 1][2]) \div 2
             ELSE points[mid + 1][2], LAMBDA my :
            [out |-> <<El("g", <<"class=edge">>, <<>>, <<>>,
                          <<escapeXml(edge.from), escapeXml(edge.to)>>, <<>>)>>
                     \o line.out \o fwd.out \o bwd.out
                     \o (IF Truthy(edge.label)
                         THEN <<labelBackground(
                                    mx, my - ((EDGE_LABEL_H * 10) \div 2) - 20,
                                    labelWidth10(edge.label[1]), EDGE_LABEL_H * 10)>>
                              \o renderText(mx, my - 20, edge.label[1], EDGE_FONT,
                                            config.fontFamily, strokeColor, <<>>,
                                            DEFAULT_MAX_CHARS)
                         ELSE <<>>)
                     \o <<GClose>>,
             s |-> bwd.s]))))))

GROUP_DASH == <<"stroke-dasharray=6,4">>

renderGroup(group, config, s) ==
    LET x == group.x * 10
        y == group.y * 10
        width == group.width * 10
        height == group.height * 10
        strokeColor == OrElse(group.color, C_AAA)
        fillColor == OrElse(group.color, C_F5)
        box == IF config.jitterAmount > 0
               THEN Bind(jitterPoints(<< <<x, y>>, <<x + width, y>>,
                                         <<x + width, y + height>>, <<x, y + height>> >>,
                                      config.jitterAmount, s), LAMBDA jp :
                    Bind(sketchyLines(ring(jp.ps), config, strokeColor, GROUP_DASH,
                                      jp.s), LAMBDA edges :
                        [out |-> <<El("path", <<"stroke=none">>, flatten(jp.ps), <<5>>,
                                      <<fillColor>>, <<>>)>> \o edges.out,
                         s |-> edges.s]))
               ELSE [out |-> <<El("rect", GROUP_DASH, <<x, y, width, height>>,
                                  <<config.cornerRadius, 5, config.strokeWidth>>,
                                  <<fillColor, strokeColor>>, <<>>)>>,
                     s |-> s]
        lbl == IF Truthy(group.label)
               THEN anchorStart(renderText(x + 120, y + 140, group.label[1], EDGE_FONT,
                                           config.fontFamily, strokeColor, <<>>,
                                           DEFAULT_MAX_CHARS))
               ELSE <<>>
    IN  Bind(box, LAMBDA b :
            [out |-> <<El("g", <<"class=group">>, <<>>, <<>>,
                          <<escapeXml(group.id)>>, <<>>)>>
                     \o b.out \o lbl \o <<GClose>>,
             s |-> b.s])

renderTitle(title, svgWidth, config) ==
    renderText(svgWidth \div 2, 240, title, TITLE_FONT, config.fontFamily, C_333,
               <<"font-weight=bold">>, DEFAULT_MAX_CHARS)

(***************************************************************************)
(* svg-renderer.ts: sequence diagram helpers.                              *)
(***************************************************************************)
BOX_HEIGHT == 40
LOOP_WIDTH == 30
LOOP_HEIGHT == 20

renderParticipantBox(participant, yTop, config, colorIndex, s) ==
    LET fillColor == OrElse(participant.color, PALETTE[(colorIndex % Len(PALETTE)) + 1])
        strokeColor == darkenColor(fillColor)
        px == participant.x * 10
        pw == participant.width * 10
        bx == px - (pw \div 2)
        by == yTop * 10
    IN  Bind(renderRectangle(bx, by, pw, BOX_HEIGHT * 10, fillColor, strokeColor,
                             config, s), LAMBDA box :
            [out |-> box.out \o
                     renderText(px, by + ((BOX_HEIGHT * 10) \div 2), participant.label,
                                PARTICIPANT_FONT, config.fontFamily, C_333, <<>>,
                                DEFAULT_MAX_CHARS),
             s |-> box.s])

renderLifeline(participant, config, s) ==
    sketchyLine(participant.x * 10, (participant.topY + BOX_HEIGHT) * 10,
                participant.x * 10, participant.bottomY * 10,
                config, C_999, GROUP_DASH, s)

\* participantsById.get(id): <<>> when absent; the last participant with
\* that id when several have it (Map.set overwrites)
getById(items, id) ==
    IF \E i \in 1..Len(items) : items[i].id = id
    THEN <<items[CHOOSE i \in 1..Len(items) :
                   items[i].id = id /\ \A k \in (i + 1)..Len(items) : items[k].id # id]>>
    ELSE <<>>

\* a renderMessage that opens a message group before it looks up the ends
renderMessageOpensFirst(msg, participants, config, s) ==
    [out |-> <<El("g", <<"class=message">>, <<>>, <<>>, <<>>, <<>>), GClose>>, s |-> s]

renderMessage(msg, participants, config, s) ==
    LET strokeColor == OrElse(msg.color, C_666)
        y == msg.y * 10
        lw == LOOP_WIDTH * 10
        lh == LOOP_HEIGHT * 10
        labelY == y - 80
        selfParts(sx) ==
            Bind(jitterAll(<<sx, y, sx + lw, y, sx + lw, y + lh, sx, y + lh>>,
                           Rep(8, config.jitterAmount), s), LAMBDA jl :
            Bind(renderArrowhead(sx, y + lh, sx + lw, y + lh,
                                 strokeColor, config, jl.s), LAMBDA arrow :
                [out |-> <<El("path", <<"fill=none", "stroke-linecap=round">>
                                          \o getDashArray(msg.style),
                              jl.vs, <<config.strokeWidth>>, <<strokeColor>>, <<>>)>>
                         \o arrow.out \o
                         anchorStart(renderText(sx + lw + 80, y + (lh \div 2), msg.label,
                                                EDGE_FONT, config.fontFamily, strokeColor,
                                                <<>>, DEFAULT_MAX_CHARS)),
                 s |-> arrow.s]))
        normalParts(fromX, toX) ==
            Bind(sketchyPolyline(<< <<fromX, y>>, <<toX, y>> >>, config,
                                 strokeColor, getDashArray(msg.style), s), LAMBDA line :
            Bind(renderArrowhead(toX, y, fromX, y, strokeColor, config, line.s),
                 LAMBDA arrow :
                [out |-> line.out \o arrow.out \o
                         <<labelBackground((fromX + toX) \div 2,
                                           labelY - ((MSG_LABEL_H * 10) \div 2),
                                           labelWidth10(msg.label), MSG_LABEL_H * 10)>> \o
                         renderText((fromX + toX) \div 2, labelY, msg.label, EDGE_FONT,
                                    config.fontFamily, strokeColor, <<>>,
                                    DEFAULT_MAX_CHARS),
                 s |-> arrow.s]))
    IN  Bind(getById(participants, msg.from), LAMBDA fromP :
        Bind(getById(participants, msg.to), LAMBDA toP :
            IF fromP = <<>> \/ toP = <<>>
            THEN [out |-> <<>>, s |-> s]
            ELSE Bind(IF msg.isSelfMessage
                      THEN selfParts(fromP[1].x * 10)
                      ELSE normalParts(fromP[1].x * 10, toP[1].x * 10), LAMBDA parts :
                     [out |-> <<El("g", <<"class=message">>, <<>>, <<>>, <<>>, <<>>)>>
                              \o parts.out \o <<GClose>>,
                      s |-> parts.s])))

(***************************************************************************)
(* svg-renderer.ts: the two top-level renders.                             *)
(***************************************************************************)
RECURSIVE renderGroups(_, _, _)
renderGroups(groups, config, s) ==
    IF groups = <<>> THEN [out |-> <<>>, s |-> s]
    ELSE Bind(renderGroup(Head(groups), config, s), LAMBDA g :
         Bind(renderGroups(Tail(groups), config, g.s), LAMBDA rest :
             [out |-> g.out \o rest.out, s |-> rest.s]))

RECURSIVE renderEdges(_, _, _)
renderEdges(edges, config, s) ==
    IF edges = <<>> THEN [out |-> <<>>, s |-> s]
    ELSE Bind(renderEdge(Head(edges), config, s), LAMBDA e :
         Bind(renderEdges(Tail(edges), config, e.s), LAMBDA rest :
             [out |-> e.out \o rest.out, s |-> rest.s]))

\* renderShape(nodes[i], config, i - 1) for i = from .. Len(nodes)
RECURSIVE renderNodes(_, _, _, _)
renderNodes(nodes, from, config, s) ==
    IF from > Len(nodes) THEN [out |-> <<>>, s |-> s]
    ELSE Bind(renderShape(nodes[from], config, from - 1, s), LAMBDA n :
         Bind(renderNodes(nodes, from + 1, config, n.s), LAMBDA rest :
             [out |-> n.out \o rest.out, s |-> rest.s]))

TITLE_OFFSET == 40

SvgOpen(width, height) == El("svg", <<>>, <<width * 10, height * 10>>, <<>>, <<>>, <<>>)
SvgClose == El("/svg", <<>>, <<>>, <<>>, <<>>, <<>>)
Background(width, height) ==
    El("rect", <<"fill=white", "background">>, <<0, 0, width * 10, height * 10>>,
       <<>>, <<>>, <<>>)
Translate(dy) == El("g", <<"transform=translate">>, <<0, dy * 10>>, <<>>, <<>>, <<>>)

\* a document with the content parts added one by one, whatever the offset
assembleNoWrapper(svgWidth, svgHeight, title, titleOffset, config, content) ==
    <<SvgOpen(svgWidth, svgHeight), Background(svgWidth, svgHeight)>> \o
    (IF Truthy(title) THEN renderTitle(title[1], svgWidth * 10, config) ELSE <<>>) \o
    content \o <<SvgClose>>

\* SvgBuilder.toString around the title and the content parts
assemble(svgWidth, svgHeight, title, titleOffset, config, content) ==
    <<SvgOpen(svgWidth, svgHeight), Background(svgWidth, svgHeight)>> \o
    (IF Truthy(title) THEN renderTitle(title[1], svgWidth * 10, config) ELSE <<>>) \o
    (IF titleOffset > 0
     THEN <<Translate(titleOffset)>> \o content \o <<GClose>>
     ELSE content) \o
    <<SvgClose>>

\* a renderFlowDiagram that goes on from the seed it finds
renderFlowDiagramNoReset(layout, theme, title, s) ==
    LET config == getThemeConfig(theme)
        titleOffset == IF Truthy(title) THEN TITLE_OFFSET ELSE 0
    IN  Bind(renderGroups(layout.groups, config, s), LAMBDA groups :
        Bind(renderEdges(layout.edges, config, groups.s), LAMBDA edges :
        Bind(renderNodes(layout.nodes, 1, config, edges.s), LAMBDA nodes :
            [svg |-> assemble(layout.width, layout.height + titleOffset, title,
                              titleOffset, config,
                              groups.out \o edges.out \o nodes.out),
             s |-> nodes.s])))

\* a renderFlowDiagram that renders the nodes before the groups and edges
renderFlowDiagramNodesFirst(layout, theme, title, s) ==
    LET s0 == resetSeed(s)
        config == getThemeConfig(theme)
        titleOffset == IF Truthy(title) THEN TITLE_OFFSET ELSE 0
    IN  Bind(renderNodes(layout.nodes, 1, config, s0), LAMBDA nodes :
        Bind(renderGroups(layout.groups, config, nodes.s), LAMBDA groups :
        Bind(renderEdges(layout.edges, config, groups.s), LAMBDA edges :
            [svg |-> assemble(layout.width, layout.height + titleOffset, title,
                              titleOffset, config,
                              nodes.out \o groups.out \o edges.out),
             s |-> edges.s])))

renderFlowDiagram(layout, theme, title, s) ==
    LET s0 == resetSeed(s)
        config == getThemeConfig(theme)
        titleOffset == IF Truthy(title) THEN TITLE_OFFSET ELSE 0
        svgWidth == layout.width
        svgHeight == layout.height + titleOffset
    IN  Bind(renderGroups(layout.groups, config, s0), LAMBDA groups :
        Bind(renderEdges(layout.edges, config, groups.s), LAMBDA edges :
        Bind(renderNodes(layout.nodes, 1, config, edges.s), LAMBDA nodes :
            [svg |-> assemble(svgWidth, svgHeight, title, titleOffset, config,
                              groups.out \o edges.out \o nodes.out),
             s |-> nodes.s])))

RECURSIVE renderLifelines(_, _, _)
renderLifelines(participants, config, s) ==
    IF participants = <<>> THEN [out |-> <<>>, s |-> s]
    ELSE Bind(renderLifeline(Head(participants), config, s), LAMBDA l :
         Bind(renderLifelines(Tail(participants), config, l.s), LAMBDA rest :
             [out |-> l.out \o rest.out, s |-> rest.s]))

RECURSIVE renderMessages(_, _, _, _)
renderMessages(messages, participants, config, s) ==
    IF messages = <<>> THEN [out |-> <<>>, s |-> s]
    ELSE Bind(renderMessage(Head(messages), participants, config, s), LAMBDA m :
         Bind(renderMessages(Tail(messages), participants, config, m.s), LAMBDA rest :
             [out |-> m.out \o rest.out, s |-> rest.s]))

\* renderParticipantBox at the top (p.topY) or the bottom (p.bottomY)
RECURSIVE renderBoxes(_, _, _, _, _)
renderBoxes(participants, from, atTop, config, s) ==
    IF from > Len(participants) THEN [out |-> <<>>, s |-> s]
    ELSE Bind(renderParticipantBox(participants[from],
                                   IF atTop THEN participants[from].topY
                                   ELSE participants[from].bottomY,
                                   config, from - 1, s), LAMBDA b :
         Bind(renderBoxes(participants, from + 1, atTop, config, b.s), LAMBDA rest :
             [out |-> b.out \o rest.out, s |-> rest.s]))

renderSequenceDiagram(layout, theme, title, s) ==
    LET s0 == resetSeed(s)
        config == getThemeConfig(theme)
        titleOffset == IF Truthy(title) THEN TITLE_OFFSET ELSE 0
        svgWidth == layout.width
        svgHeight == layout.height + titleOffset
    IN  Bind(renderLifelines(layout.participants, config, s0), LAMBDA lifelines :
        Bind(renderMessages(layout.messages, layout.participants, config,
                            lifelines.s), LAMBDA messages :
        Bind(renderBoxes(layout.participants, 1, TRUE, config, messages.s),
             LAMBDA top :
        Bind(renderBoxes(layout.participants, 1, FALSE, config, top.s),
             LAMBDA bottom :
            [svg |-> assemble(svgWidth, svgHeight, title, titleOffset, config,
                              lifelines.out \o messages.out \o top.out
                                  \o bottom.out),
             s |-> bottom.s]))))

(***************************************************************************)
(* sequence-layout.ts                                                      *)
(***************************************************************************)
PADDING == 40
PARTICIPANT_BOX_HEIGHT == 40
PARTICIPANT_GAP == 60
PARTICIPANT_MIN_WIDTH == 100
PARTICIPANT_CHAR_WIDTH == 10
PARTICIPANT_LABEL_PADDING == 40
TITLE_HEIGHT == 40
MESSAGE_SPACING == 50
SELF_MESSAGE_HEIGHT_OFFSET == 30
LIFELINE_BOTTOM_PADDING == 40

computeParticipantWidth(label) ==
    Max(PARTICIPANT_MIN_WIDTH,
        Len(label) * PARTICIPANT_CHAR_WIDTH + PARTICIPANT_LABEL_PADDING)

\* the cursor with the gap between boxes left out
RECURSIVE cursorXAtNoGap(_, _)
cursorXAtNoGap(widths, i) ==
    IF i = 1 THEN PADDING
    ELSE cursorXAtNoGap(widths, i - 1) + widths[i - 1]

\* cursorX before participant i: the boxes to its left and their gaps
RECURSIVE cursorXAt(_, _)
cursorXAt(widths, i) ==
    IF i = 1 THEN PADDING
    ELSE cursorXAt(widths, i - 1) + widths[i - 1] + PARTICIPANT_GAP

\* messageY with the same step after every message
messageYAtEvenSteps(messageDefs, i, messageTopY) ==
    messageTopY + (i - 1) * MESSAGE_SPACING

\* messageY when message i is laid out
RECURSIVE messageYAt(_, _, _)
messageYAt(messageDefs, i, messageTopY) ==
    IF i = 1 THEN messageTopY
    ELSE messageYAt(messageDefs, i - 1, messageTopY) +
         (IF messageDefs[i - 1].from = messageDefs[i - 1].to
          THEN MESSAGE_SPACING + SELF_MESSAGE_HEIGHT_OFFSET
          ELSE MESSAGE_SPACING)

\* lifeline extents that leave out the loop of a last self-message
lifelineBottomYNoLoop(layoutMessages, startY) ==
    (IF Len(layoutMessages) > 0 THEN layoutMessages[Len(layoutMessages)].y
     ELSE startY + PARTICIPANT_BOX_HEIGHT) + LIFELINE_BOTTOM_PADDING

\* "Compute lifeline extents": lastMessageY, lastMessageBottomY and the
\* bottom of the lifelines
lifelineBottomY(layoutMessages, startY) ==
    Bind(Len(layoutMessages), LAMBDA nm :
    Bind(IF nm > 0 THEN layoutMessages[nm].y
         ELSE startY + PARTICIPANT_BOX_HEIGHT, LAMBDA lastMessageY :
    Bind(IF nm > 0 /\ layoutMessages[nm].isSelfMessage
         THEN layoutMessages[nm].y + SELF_MESSAGE_HEIGHT_OFFSET
         ELSE lastMessageY, LAMBDA lastMessageBottomY :
        lastMessageBottomY + LIFELINE_BOTTOM_PADDING)))

layoutSequenceDiagram(diagram) ==
    LET participantDefs == diagram.participants
        messageDefs == diagram.messages
        startY == IF Truthy(diagram.title) THEN PADDING + TITLE_HEIGHT ELSE PADDING
        messageTopY == startY + PARTICIPANT_BOX_HEIGHT + MESSAGE_SPACING
        np == Len(participantDefs)
        nm == Len(messageDefs)
    IN  Bind([i \in 1..np |-> computeParticipantWidth(participantDefs[i].label)],
             LAMBDA widths :
        Bind([i \in 1..np |-> cursorXAt(widths, i) + (widths[i] \div 2)],
             LAMBDA centerXs :
        Bind([i \in 1..nm |->
                [from |-> messageDefs[i].from, to |-> messageDefs[i].to,
                 label |-> messageDefs[i].label,
                 y |-> messageYAt(messageDefs, i, messageTopY),
                 style |-> messageDefs[i].style, color |-> messageDefs[i].color,
                 isSelfMessage |-> messageDefs[i].from = messageDefs[i].to]],
             LAMBDA layoutMessages :
        Bind(lifelineBottomY(layoutMessages, startY), LAMBDA lifelineBottom :
            [width |-> IF np > 0
                       THEN centerXs[np] + (widths[np] \div 2) + PADDING
                       ELSE PADDING * 2,
             height |-> lifelineBottom + PADDING,
             participants |->
                [i \in 1..np |->
                    [id |-> participantDefs[i].id, label |-> participantDefs[i].label,
                     x |-> centerXs[i], topY |-> startY, bottomY |-> lifelineBottom,
                     width |-> widths[i], color |-> participantDefs[i].color]],
             messages |-> layoutMessages]))))

(***************************************************************************)
(* schema/types.ts: LayoutNode, LayoutEdge, LayoutGroup.                   *)
(***************************************************************************)
Node(id, x, y, width, height, label, shape, color, textColor) ==
    [id |-> id, x |-> x, y |-> y, width |-> width, height |-> height,
     label |-> label, shape |-> shape, color |-> color, textColor |-> textColor]

Edge(from, to, label, style, direction, color, points) ==
    [from |-> from, to |-> to, label |-> label, style |-> style,
     direction |-> direction, color |-> color, points |-> points]

Group(id, label, x, y, width, height, color) ==
    [id |-> id, label |-> label, x |-> x, y |-> y, width |-> width,
     height |-> height, color |-> color]

(***************************************************************************)
(* flow-layout.ts: the graph handed to the layout service.  A definition   *)
(* (after parsing) has nodes [id, label, shape, color, textColor, width,   *)
(* height], edges [from, to, label, style, direction, color] and groups    *)
(* [id, label, contains, color]; width, height, label and the colours are  *)
(* optional.                                                               *)
(***************************************************************************)
FLOW_PADDING == 40
NODE_MIN_WIDTH == 120
NODE_HEIGHT == 60
CHAR_WIDTH_PX == 10
NODE_HORIZONTAL_PADDING == 40
NODE_SPACING == 50
LAYER_SPACING == 80
GROUP_PADDING == 30

estimateNodeWidth(label) ==
    Max(NODE_MIN_WIDTH, Len(label) * CHAR_WIDTH_PX + NODE_HORIZONTAL_PADDING)

mapDirection(direction) ==
    CASE direction = "TB" -> "DOWN"
      [] direction = "LR" -> "RIGHT"
      [] direction = "BT" -> "UP"
      [] direction = "RL" -> "LEFT"
      [] OTHER -> "DOWN"

\* nodeToGroup.get(nodeId): the last group, in order, that contains the node
buildNodeToGroupMap(groups, nodeId) ==
    LET holders == {g \in 1..Len(groups) :
                        \E k \in 1..Len(groups[g].contains) :
                            groups[g].contains[k] = nodeId}
    IN  IF holders = {} THEN None
        ELSE Some(groups[CHOOSE g \in holders : \A h \in holders : h <= g].id)

\* An ELK node: position and size are <<>> until the service sets them.
ElkNode(id, width, height, children) ==
    [id |-> id, x |-> None, y |-> None, width |-> width, height |-> height,
     children |-> children, edges |-> <<>>]

toElkChildNode(node) ==
    ElkNode(node.id, Some(OrElse(node.width, estimateNodeWidth(node.label))),
            Some(OrElse(node.height, NODE_HEIGHT)), <<>>)

Digits == <<"0", "1", "2", "3", "4", "5", "6", "7", "8", "9">>

\* `e${index}_${edge.from}_${edge.to}`, index from 0
edgeId(edge, index) ==
    <<"e", Digits[index + 1], "_">> \o edge.from \o <<"_">> \o edge.to

toElkEdge(edge, index) ==
    [id |-> edgeId(edge, index), sources |-> <<edge.from>>, targets |-> <<edge.to>>,
     sections |-> <<>>]

\* the items of seq that satisfy Test, in order
RECURSIVE SelectSeqBy(_, _)
SelectSeqBy(seq, keep) ==
    IF seq = <<>> THEN <<>>
    ELSE (IF Head(seq) \in keep THEN <<Head(seq)>> ELSE <<>>)
         \o SelectSeqBy(Tail(seq), keep)

\* Map.set of each group by id: a later group with the id of an earlier one
\* replaces it, in the place of the earlier one
GroupIndexes(groups) ==
    SelectSeqBy([g \in 1..Len(groups) |-> g],
                {g \in 1..Len(groups) : \A h \in 1..(g - 1) : groups[h].id # groups[g].id})

HasGroup(groups, id) == \E g \in 1..Len(groups) : groups[g].id = id

\* the graph of layoutFlowDiagram: the nodes outside every group, then one
\* compound node per group holding its nodes; all edges on the root
buildRootGraph(diagram) ==
    LET nodes == diagram.nodes
        groups == diagram.groups
        leaves(ms) == [k \in 1..Len(ms) |-> toElkChildNode(nodes[ms[k]])]
    IN  Bind([n \in 1..Len(nodes) |-> buildNodeToGroupMap(groups, nodes[n].id)],
             LAMBDA groupOf :
        Bind({n \in 1..Len(nodes) :
                groupOf[n] # None /\ Truthy(groupOf[n])
                    /\ HasGroup(groups, groupOf[n][1])}, LAMBDA inGroup :
        Bind(GroupIndexes(groups), LAMBDA gix :
            [id |-> "root", direction |-> mapDirection(diagram.direction),
             width |-> None, height |-> None,
             children |->
                leaves(SelectSeqBy([n \in 1..Len(nodes) |-> n],
                                   (1..Len(nodes)) \ inGroup)) \o
                [i \in 1..Len(gix) |->
                    ElkNode(groups[gix[i]].id, None, None,
                            leaves(SelectSeqBy(
                                [n \in 1..Len(nodes) |-> n],
                                {n \in inGroup :
                                    groupOf[n][1] = groups[gix[i]].id})))],
             edges |-> [e \in 1..Len(diagram.edges) |->
                           toElkEdge(diagram.edges[e], e - 1)]])))

(***************************************************************************)
(* The external layout service (elk.layout).  It answers with the graph    *)
(* it was given, positions and sizes filled in, or it fails.  The answer   *)
(* modelled here stacks the children of a node along the direction of the  *)
(* graph, the children of a compound node inside its padding; a variant    *)
(* says whether edges come back routed and which margin the root keeps.    *)
(***************************************************************************)
RECURSIVE SumSeq(_)
SumSeq(xs) == IF xs = <<>> THEN 0 ELSE Head(xs) + SumSeq(Tail(xs))

MaxSeq(xs) == IF xs = <<>> THEN 0 ELSE CHOOSE m \in {xs[i] : i \in 1..Len(xs)} :
                                          \A i \in 1..Len(xs) : xs[i] <= m

Reverse(xs) == [i \in 1..Len(xs) |-> xs[Len(xs) + 1 - i]]

ElkVariants == {[routed |-> TRUE, margin |-> 12], [routed |-> FALSE, margin |-> 0]}

\* children stacked from (origin, origin) along the main axis; sizes given
elkStack(children, sizes, origin, vertical, reversed) ==
    LET n == Len(children)
        rank(i) == IF reversed THEN n + 1 - i ELSE i
        main(i) == IF vertical THEN sizes[i][2] ELSE sizes[i][1]
        before(i) == SumSeq([k \in 1..n |->
                         IF rank(k) < rank(i) THEN main(k) + LAYER_SPACING ELSE 0])
    IN  [i \in 1..n |->
            [children[i] EXCEPT
                !.x = Some(IF vertical THEN origin ELSE origin + before(i)),
                !.y = Some(IF vertical THEN origin + before(i) ELSE origin),
                !.width = Some(sizes[i][1]),
                !.height = Some(sizes[i][2])]]

\* the extent of stacked sizes with a margin on every side
elkExtent(sizes, margin, vertical) ==
    LET ws == [i \in 1..Len(sizes) |-> sizes[i][1]]
        hs == [i \in 1..Len(sizes) |-> sizes[i][2]]
        gaps == IF Len(sizes) > 1 THEN (Len(sizes) - 1) * LAYER_SPACING ELSE 0
    IN  IF vertical
        THEN <<MaxSeq(ws) + 2 * margin, SumSeq(hs) + gaps + 2 * margin>>
        ELSE <<SumSeq(ws) + gaps + 2 * margin, MaxSeq(hs) + 2 * margin>>

\* a node that came without a size, a compound node left without children,
\* is given its padding on both sides
elkLeafSize(node) ==
    <<OrElse(node.width, 2 * GROUP_PADDING), OrElse(node.height, 2 * GROUP_PADDING)>>

elkSize(node, vertical) ==
    IF node.children = <<>> THEN elkLeafSize(node)
    ELSE elkExtent([k \in 1..Len(node.children) |-> elkLeafSize(node.children[k])],
                   GROUP_PADDING, vertical)

\* absolute position of the placed node with the given id: <<>> if none
elkFind(placed, id) ==
    LET top(c) == <<[x |-> c.x[1], y |-> c.y[1],
                     width |-> c.width[1], height |-> c.height[1]]>>
        nested(par, ch) == <<[x |-> par.x[1] + ch.x[1], y |-> par.y[1] + ch.y[1],
                              width |-> ch.width[1], height |-> ch.height[1]]>>
    IN  Bind({i \in 1..Len(placed) : placed[i].id = id}, LAMBDA tops :
        Bind(UNION {{<<i, k>> : k \in {j \in 1..Len(placed[i].children) :
                                            placed[i].children[j].id = id}} :
                    i \in 1..Len(placed)}, LAMBDA inner :
            IF tops # {}
            THEN top(placed[CHOOSE i \in tops : TRUE])
            ELSE IF inner # {}
            THEN Bind(CHOOSE ik \in inner : TRUE, LAMBDA ik :
                     nested(placed[ik[1]], placed[ik[1]].children[ik[2]]))
            ELSE <<>>))

\* the service rejects a graph with an edge whose end is not in the graph
ElkAccepts(graph) ==
    LET known(id) ==
            \/ \E i \in 1..Len(graph.children) : graph.children[i].id = id
            \/ \E i \in 1..Len(graph.children) :
                  \E k \in 1..Len(graph.children[i].children) :
                      graph.children[i].children[k].id = id
    IN  \A e \in 1..Len(graph.edges) :
            known(graph.edges[e].sources[1]) /\ known(graph.edges[e].targets[1])

ElkLayout(graph, variant) ==
    LET vertical == graph.direction \in {"DOWN", "UP"}
        reversed == graph.direction \in {"UP", "LEFT"}
        \* from the bottom centre of src to the top centre of tgt
        section(sp, ep) ==
            <<[startPoint |-> sp,
               bendPoints |-> IF sp.x = ep.x THEN <<>>
                              ELSE <<[x |-> sp.x, y |-> (sp.y + ep.y) \div 2],
                                     [x |-> ep.x, y |-> (sp.y + ep.y) \div 2]>>,
               endPoint |-> ep]>>
        between(src, tgt) ==
            section([x |-> src.x + (src.width \div 2), y |-> src.y + src.height],
                    [x |-> tgt.x + (tgt.width \div 2), y |-> tgt.y])
    IN  Bind([i \in 1..Len(graph.children) |->
                [graph.children[i] EXCEPT !.children =
                    elkStack(graph.children[i].children,
                             [k \in 1..Len(graph.children[i].children) |->
                                 elkLeafSize(graph.children[i].children[k])],
                             GROUP_PADDING, vertical, reversed)]], LAMBDA withInner :
        Bind([i \in 1..Len(withInner) |-> elkSize(withInner[i], vertical)],
             LAMBDA sizes :
        Bind(elkStack(withInner, sizes, variant.margin, vertical, reversed),
             LAMBDA placed :
        Bind(elkExtent(sizes, variant.margin, vertical), LAMBDA extent :
            [graph EXCEPT
                !.width = Some(extent[1]),
                !.height = Some(extent[2]),
                !.children = placed,
                !.edges = [e \in 1..Len(graph.edges) |->
                              IF /\ variant.routed
                                 /\ elkFind(placed, graph.edges[e].sources[1]) # <<>>
                                 /\ elkFind(placed, graph.edges[e].targets[1]) # <<>>
                              THEN [graph.edges[e] EXCEPT !.sections =
                                      between(
                                        elkFind(placed, graph.edges[e].sources[1])[1],
                                        elkFind(placed, graph.edges[e].targets[1])[1])]
                              ELSE graph.edges[e]]]))))

(***************************************************************************)
(* flow-layout.ts: reading the answer of the layout service.               *)
(***************************************************************************)
extractRoutePoints(sections) ==
    Concat([i \in 1..Len(sections) |->
        <<sections[i].startPoint>> \o sections[i].bendPoints \o
        <<sections[i].endPoint>>])

Pos(id, x, y, width, height) ==
    [id |-> id, x |-> x, y |-> y, width |-> width, height |-> height]

\* a walk that does not accumulate: every position is left relative to the
\* node that holds it
RECURSIVE walkNodesRelative(_, _, _)
walkNodesRelative(node, offsetX, offsetY) ==
    Concat([i \in 1..Len(node.children) |->
        LET child == node.children[i]
        IN  IF Len(child.children) > 0
            THEN walkNodesRelative(child, 0, 0)
            ELSE <<Pos(child.id, OrElse(child.x, 0), OrElse(child.y, 0),
                       OrElse(child.width, 0), OrElse(child.height, 0))>>])

\* the positions as the service gave them, those of the children of a
\* compound node left relative to it
collectNodePositionsRelative(root) == walkNodesRelative(root, 0, 0)

\* walk of collectNodePositions: the entries set into the positions map, in
\* the order of the walk; a child with children is walked into with the
\* accumulated offset, a child without is recorded at it
RECURSIVE walkNodes(_, _, _)
walkNodes(node, offsetX, offsetY) ==
    Concat([i \in 1..Len(node.children) |->
        LET child == node.children[i]
        IN  IF Len(child.children) > 0
            THEN walkNodes(child, OrElse(child.x, 0) + offsetX,
                           OrElse(child.y, 0) + offsetY)
            ELSE <<Pos(child.id, OrElse(child.x, 0) + offsetX,
                       OrElse(child.y, 0) + offsetY,
                       OrElse(child.width, 0), OrElse(child.height, 0))>>])

collectNodePositions(root) == walkNodes(root, 0, 0)

\* the compound children of the root
collectGroupPositions(root) ==
    Concat([i \in 1..Len(root.children) |->
        LET child == root.children[i]
        IN  IF Len(child.children) > 0
            THEN <<Pos(child.id, OrElse(child.x, 0), OrElse(child.y, 0),
                       OrElse(child.width, 0), OrElse(child.height, 0))>>
            ELSE <<>>])

\* a walk that reads every route as if its edge lived on the root
RECURSIVE walkEdgesAtRoot(_, _, _)
walkEdgesAtRoot(node, offsetX, offsetY) ==
    [e \in 1..Len(node.edges) |->
        [id |-> node.edges[e].id,
         points |-> LET raw == extractRoutePoints(node.edges[e].sections)
                    IN  [k \in 1..Len(raw) |-> <<raw[k].x, raw[k].y>>]]] \o
    Concat([i \in 1..Len(node.children) |->
        walkEdgesAtRoot(node.children[i], 0, 0)])

\* walk of collectEdgeRoutes: the entries set into the routes map, in the
\* order of the walk; the edges of a node are offset by the accumulated
\* offset of that node, then every child is walked into
RECURSIVE walkEdges(_, _, _)
walkEdges(node, offsetX, offsetY) ==
    [e \in 1..Len(node.edges) |->
        [id |-> node.edges[e].id,
         points |-> LET raw == extractRoutePoints(node.edges[e].sections)
                    IN  [k \in 1..Len(raw) |->
                            <<raw[k].x + offsetX, raw[k].y + offsetY>>]]] \o
    Concat([i \in 1..Len(node.children) |->
        walkEdges(node.children[i], OrElse(node.children[i].x, 0) + offsetX,
                  OrElse(node.children[i].y, 0) + offsetY)])

collectEdgeRoutes(root) == walkEdges(root, 0, 0)

\* "Map nodes": one LayoutNode per node definition, in order
layoutNode(nodeDef, pos) ==
    Node(nodeDef.id,
         (IF pos = <<>> THEN 0 ELSE pos[1].x) + FLOW_PADDING,
         (IF pos = <<>> THEN 0 ELSE pos[1].y) + FLOW_PADDING,
         IF pos = <<>> THEN estimateNodeWidth(nodeDef.label) ELSE pos[1].width,
         IF pos = <<>> THEN NODE_HEIGHT ELSE pos[1].height,
         nodeDef.label, nodeDef.shape, nodeDef.color, nodeDef.textColor)

\* the centre of a positioned node, offset by the padding; nothing is pushed
\* for an id without a position
centrePoint(pos) ==
    IF pos = <<>> THEN <<>>
    ELSE << <<pos[1].x + (pos[1].width \div 2) + FLOW_PADDING,
              pos[1].y + (pos[1].height \div 2) + FLOW_PADDING>> >>

padPoints(rawPoints) ==
    [k \in 1..Len(rawPoints) |->
        <<rawPoints[k][1] + FLOW_PADDING, rawPoints[k][2] + FLOW_PADDING>>]

\* an edge that takes the route of the service or nothing
layoutEdgeNoFallback(edgeDef, route, nodePositions) ==
    Edge(edgeDef.from, edgeDef.to, edgeDef.label, edgeDef.style,
         edgeDef.direction, edgeDef.color,
         padPoints(IF route = <<>> THEN <<>> ELSE route[1].points))

\* the body of "Map edges": the padded route, or the centres of the ends
layoutEdge(edgeDef, route, nodePositions) ==
    Bind(padPoints(IF route = <<>> THEN <<>> ELSE route[1].points),
         LAMBDA points :
        Edge(edgeDef.from, edgeDef.to, edgeDef.label, edgeDef.style,
             edgeDef.direction, edgeDef.color,
             IF Len(points) = 0
             THEN centrePoint(getById(nodePositions, edgeDef.from)) \o
                  centrePoint(getById(nodePositions, edgeDef.to))
             ELSE points))

\* a mapping that keeps only the edges that can be drawn
layoutEdgesDrawable(edges, edgeRoutes, nodePositions) ==
    SelectSeq([e \in 1..Len(edges) |->
                  layoutEdge(edges[e], getById(edgeRoutes, edgeId(edges[e], e - 1)),
                             nodePositions)],
              LAMBDA edge : Len(edge.points) >= 2)

\* "Map edges": one LayoutEdge per edge definition, in order
layoutEdges(edges, edgeRoutes, nodePositions) ==
    [e \in 1..Len(edges) |->
        layoutEdge(edges[e], getById(edgeRoutes, edgeId(edges[e], e - 1)),
                   nodePositions)]

\* "Map groups": one LayoutGroup per group definition, in order
layoutGroup(groupDef, pos) ==
    Group(groupDef.id, groupDef.label,
          (IF pos = <<>> THEN 0 ELSE pos[1].x) + FLOW_PADDING,
          (IF pos = <<>> THEN 0 ELSE pos[1].y) + FLOW_PADDING,
          IF pos = <<>> THEN 0 ELSE pos[1].width,
          IF pos = <<>> THEN 0 ELSE pos[1].height,
          groupDef.color)

\* layoutFlowDiagram after `await elk.layout(rootGraph)` has answered result
layoutFromResult(diagram, result) ==
    Bind(collectNodePositions(result), LAMBDA nodePositions :
    Bind(collectGroupPositions(result), LAMBDA groupPositions :
    Bind(collectEdgeRoutes(result), LAMBDA edgeRoutes :
        [width |-> OrElse(result.width, 0) + FLOW_PADDING * 2,
         height |-> OrElse(result.height, 0) + FLOW_PADDING * 2,
         nodes |-> [n \in 1..Len(diagram.nodes) |->
                       layoutNode(diagram.nodes[n],
                                  getById(nodePositions, diagram.nodes[n].id))],
         edges |-> layoutEdges(diagram.edges, edgeRoutes, nodePositions),
         groups |-> [g \in 1..Len(diagram.groups) |->
                        layoutGroup(diagram.groups[g],
                                    getById(groupPositions,
                                            diagram.groups[g].id))]])))

(***************************************************************************)
(* schema: parseDiagram.  A raw input carries its optional fields as <<>>  *)
(* or <<value>>; parsing validates the enumerations and fills in defaults. *)
(***************************************************************************)
EdgeStyles == {"solid", "dashed", "dotted"}
ArrowDirections == {"forward", "backward", "both", "none"}
FlowDirections == {"TB", "LR", "BT", "RL"}

OptIn(opt, allowed) == opt = <<>> \/ opt[1] \in allowed

FlowDiagramSchema(input) ==
    /\ OptIn(input.style, Themes)
    /\ OptIn(input.direction, FlowDirections)
    /\ \A n \in 1..Len(input.nodes) : OptIn(input.nodes[n].shape, Shapes)
    /\ \A e \in 1..Len(OrElse(input.edges, <<>>)) :
          /\ OptIn(input.edges[1][e].style, EdgeStyles)
          /\ OptIn(input.edges[1][e].direction, ArrowDirections)

SequenceDiagramSchema(input) ==
    /\ OptIn(input.style, Themes)
    /\ \A m \in 1..Len(input.messages) : OptIn(input.messages[m].style, EdgeStyles)

\* DiagramSchema: the union discriminated by "type"
DiagramSchema(input) ==
    CASE input.type = "flow" -> FlowDiagramSchema(input)
      [] input.type = "sequence" -> SequenceDiagramSchema(input)
      [] OTHER -> FALSE

\* the parsed value: defaults filled in
withDefaults(input) ==
    CASE input.type = "flow" ->
            [type |-> "flow", title |-> input.title,
             style |-> OrElse(input.style, "hand-drawn"),
             direction |-> OrElse(input.direction, "TB"),
             nodes |-> [n \in 1..Len(input.nodes) |->
                          [input.nodes[n] EXCEPT !.shape = OrElse(@, "rectangle")]],
             edges |-> LET edges == OrElse(input.edges, <<>>)
                       IN  [e \in 1..Len(edges) |->
                              [edges[e] EXCEPT !.style = OrElse(@, "solid"),
                                               !.direction = OrElse(@, "forward")]],
             groups |-> OrElse(input.groups, <<>>)]
      [] input.type = "sequence" ->
            [type |-> "sequence", title |-> input.title,
             style |-> OrElse(input.style, "hand-drawn"),
             participants |-> input.participants,
             messages |-> [m \in 1..Len(input.messages) |->
                             [input.messages[m] EXCEPT !.style = OrElse(@, "solid")]]]
      [] OTHER -> input

\* a parse that accepts every input
parseDiagramUnchecked(input) == Some(withDefaults(input))

\* parseDiagram: <<diagram>>, or <<>> when DiagramSchema.parse throws
parseDiagram(input) ==
    IF DiagramSchema(input) THEN Some(withDefaults(input)) ELSE None

(***************************************************************************)
(* export.ts: svgToPng.  The PNG is represented by what it was rasterised  *)
(* from and at which zoom.                                                 *)
(***************************************************************************)
PNG_SCALE == 2

\* a rasteriser that ignores the document it is given
svgToPngBlank(svg) == [format |-> "png", scale |-> PNG_SCALE, source |-> <<>>]

svgToPng(svg) == [format |-> "png", scale |-> PNG_SCALE, source |-> svg]

(***************************************************************************)
(* Initial state: the renderer module is loaded (seed = 42), nothing has   *)
(* been rendered and no generateDiagram call has been made; the MCP server *)
(* has an empty store, no preview server and has served no tool call.      *)
(***************************************************************************)
Init ==
    /\ seed = SEED0
    /\ hist = <<>>
    /\ calls = <<>>
    /\ svcLog = <<>>
    /\ diagrams = <<>>
    /\ nextId = 1
    /\ previewServers = <<>>
    /\ servers = <<>>
    /\ fileSystem = [dirs |-> {}, files |-> <<>>]
    /\ toolCalls = <<>>
    /\ running = TRUE

(***************************************************************************)
(* Direct calls of the two exported renders, as in render.test.ts.         *)
(***************************************************************************)
RenderFlow(in) ==
    \E r \in {renderFlowDiagram(in.layout, in.theme, in.title, seed)} :
        /\ seed' = r.s
        /\ hist' = Append(hist, [kind |-> "flow", in |-> in, layout |-> in.layout,
                                 svg |-> r.svg, drawn |-> r.s])
        /\ UNCHANGED <<calls, svcLog, mcpVars>>

RenderSequence(in) ==
    \E r \in {renderSequenceDiagram(in.layout, in.theme, in.title, seed)} :
        /\ seed' = r.s
        /\ hist' = Append(hist, [kind |-> "sequence", in |-> in, layout |-> in.layout,
                                 svg |-> r.svg, drawn |-> r.s])
        /\ UNCHANGED <<calls, svcLog, mcpVars>>

\* words used as ids, labels and titles
W_a == <<"a">>
W_b == <<"b">>
W_NodeA == <<"N", "o", "d", "e", " ", "A">>
W_Title == <<"M", "y", " ", "T", "i", "t", "l", "e">>
W_Client == <<"C", "l", "i", "e", "n", "t">>
W_Server == <<"S", "e", "r", "v", "e", "r">>
W_g1 == <<"g", "1">>

\* render.test.ts: simpleLayout, and the layout of "renders edges with labels"
\* with a group added
simpleLayout ==
    [width |-> 300, height |-> 200,
     nodes |-> <<Node(W_a, 50, 50, 120, 60, W_NodeA, "rectangle", None, None)>>,
     edges |-> <<>>, groups |-> <<>>]

edgeLayout ==
    [width |-> 400, height |-> 300,
     nodes |-> <<Node(W_a, 50, 50, 120, 60, W_a, "ellipse", None, None),
                 Node(W_b, 50, 180, 120, 60, W_b, "rectangle", None, None)>>,
     edges |-> <<Edge(W_a, W_b, Some(W_NodeA), "dashed", "forward", None,
                      << <<110, 110>>, <<110, 180>> >>)>>,
     groups |-> <<Group(W_g1, Some(W_g1), 30, 30, 200, 250, None)>>]

\* render.test.ts: simpleSequence, with a self-message added
simpleSequence ==
    [width |-> 400, height |-> 300,
     participants |->
        <<[id |-> W_a, label |-> W_Client, x |-> 100, topY |-> 40, bottomY |-> 250,
           width |-> 100, color |-> None],
          [id |-> W_b, label |-> W_Server, x |-> 300, topY |-> 40, bottomY |-> 250,
           width |-> 100, color |-> None]>>,
     messages |->
        <<[from |-> W_a, to |-> W_b, label |-> W_a, y |-> 130, style |-> "solid",
           color |-> None, isSelfMessage |-> FALSE],
          [from |-> W_b, to |-> W_b, label |-> W_b, y |-> 180, style |-> "dashed",
           color |-> None, isSelfMessage |-> TRUE]>>]

RenderFlowInputs ==
    [layout : {simpleLayout, edgeLayout}, theme : Themes, title : {None, Some(W_Title)}]

RenderSequenceInputs ==
    [layout : {simpleSequence}, theme : Themes, title : {None, Some(W_Title)}]

NextRender ==
    /\ Len(hist) < MaxRenders
    /\ \/ \E in \in RenderFlowInputs : RenderFlow(in)
       \/ \E in \in RenderSequenceInputs : RenderSequence(in)

SpecRender == Init /\ [][NextRender]_vars

(***************************************************************************)
(* Renders of a single node whose label ranges over short and long labels  *)
(* with and without whitespace and special characters.                     *)
(***************************************************************************)
MaxLabelToks == 3

A10 == [i \in 1..10 |-> "a"]
LabelToks == {A10, <<"a">>, <<" ">>, <<"&">>, <<"<">>}

Labels ==
    {Concat(ts) : ts \in UNION {[1..k -> LabelToks] : k \in 0..MaxLabelToks}}

LabelLayout(label) ==
    [width |-> 500, height |-> 200,
     nodes |-> <<Node(<<"n">>, 50, 50, 400, 60, label, "rectangle", None, None)>>,
     edges |-> <<>>, groups |-> <<>>]

NextLabel ==
    /\ hist = <<>>
    /\ \E label \in Labels, theme \in {"hand-drawn", "clean"} :
          RenderFlow([layout |-> LabelLayout(label), theme |-> theme, title |-> None])

SpecLabel == Init /\ [][NextLabel]_vars

(***************************************************************************)
(* Renders of a single node of every shape, in every theme.                *)
(***************************************************************************)
W_red == <<"#", "F", "F", "0", "0", "0", "0">>

ShapeLayout(shape, width, height, color) ==
    [width |-> width + 100, height |-> height + 100,
     nodes |-> <<Node(W_a, 50, 50, width, height, W_NodeA, shape, color, None)>>,
     edges |-> <<>>, groups |-> <<>>]

ShapeSizes == {<<120, 60>>, <<80, 80>>, <<200, 40>>}

NextShape ==
    /\ hist = <<>>
    /\ \E shape \in Shapes, theme \in Themes, size \in ShapeSizes,
          color \in {None, Some(W_red)} :
          RenderFlow([layout |-> ShapeLayout(shape, size[1], size[2], color),
                      theme |-> theme, title |-> None])

SpecShape == Init /\ [][NextShape]_vars

(***************************************************************************)
(* Renders with one user string, holding special characters, in one place  *)
(* of the input.                                                           *)
(***************************************************************************)
HostileStrings ==
    {<<"&">>, <<"<", "b", ">">>, <<"\"", "/", ">", "<", "x">>, <<"'">>,
     <<"&", "l", "t", ";">>, <<"a", "&", "'", "b", "\"">>}

FlowSlots == {"nodeId", "nodeLabel", "nodeColor", "nodeTextColor", "edgeTo",
              "edgeLabel", "edgeColor", "groupId", "groupLabel", "groupColor",
              "title"}

SequenceSlots == {"participantLabel", "participantColor", "messageLabel",
                  "messageColor", "title"}

At(slot, here, u, dflt) == IF slot = here THEN u ELSE dflt

\* edgeLayout with u in the given place; a node id is also the end of the edge
FlowWith(slot, u) ==
    LET idA == At(slot, "nodeId", u, W_a)
        idB == At(slot, "edgeTo", u, W_b)
    IN  [width |-> 400, height |-> 300,
         nodes |-> <<Node(idA, 50, 50, 120, 60, At(slot, "nodeLabel", u, W_NodeA),
                          "ellipse", At(slot, "nodeColor", Some(u), None),
                          At(slot, "nodeTextColor", Some(u), None)),
                     Node(idB, 50, 180, 120, 60, W_b, "rectangle", None, None)>>,
         edges |-> <<Edge(idA, idB, At(slot, "edgeLabel", Some(u), Some(W_a)),
                          "solid", "forward", At(slot, "edgeColor", Some(u), None),
                          << <<110, 110>>, <<110, 180>> >>)>>,
         groups |-> <<Group(At(slot, "groupId", u, W_g1),
                            At(slot, "groupLabel", Some(u), Some(W_g1)),
                            30, 30, 200, 250,
                            At(slot, "groupColor", Some(u), None))>>]

\* simpleSequence with u in the given place
SequenceWith(slot, u) ==
    [simpleSequence EXCEPT
        !.participants[1].label = At(slot, "participantLabel", u, @),
        !.participants[1].color = At(slot, "participantColor", Some(u), @),
        !.messages[1].label = At(slot, "messageLabel", u, @),
        !.messages[1].color = At(slot, "messageColor", Some(u), @)]

NextEscape ==
    /\ hist = <<>>
    /\ \E u \in HostileStrings, theme \in {"hand-drawn", "clean"} :
          \/ \E slot \in FlowSlots :
                RenderFlow([layout |-> FlowWith(slot, u), theme |-> theme,
                            title |-> At(slot, "title", Some(u), None),
                            slot |-> slot, u |-> u])
          \/ \E slot \in SequenceSlots :
                RenderSequence([layout |-> SequenceWith(slot, u), theme |-> theme,
                                title |-> At(slot, "title", Some(u), None),
                                slot |-> slot, u |-> u])

SpecEscape == Init /\ [][NextEscape]_vars

(***************************************************************************)
(* index.ts, renderDiagram, case "sequence": the layout of a sequence      *)
(* diagram definition, then its render.                                    *)
(***************************************************************************)
RenderSequenceDef(diagram) ==
    \E layout \in {layoutSequenceDiagram(diagram)} :
    \E r \in {renderSequenceDiagram(layout, diagram.style, diagram.title, seed)} :
        /\ seed' = r.s
        /\ hist' = Append(hist, [kind |-> "sequence",
                                 in |-> [layout |-> layout, theme |-> diagram.style,
                                         title |-> diagram.title, def |-> diagram],
                                 layout |-> layout, svg |-> r.svg, drawn |-> r.s])
        /\ UNCHANGED <<calls, svcLog, mcpVars>>

MaxMessages == 2

W_c == <<"c">>
\* a message label of 50 characters
W_long == [i \in 1..50 |-> IF i % 10 = 0 THEN " " ELSE "m"]

Participant(id, label) == [id |-> id, label |-> label, color |-> None]
Message(from, to, label, style) ==
    [from |-> from, to |-> to, label |-> label, style |-> style, color |-> None]

ParticipantLists ==
    {<<Participant(W_a, W_Client)>>,
     <<Participant(W_a, W_Client), Participant(W_b, W_Server)>>}

\* forward, backward, self, with a long label, to an unknown participant, from
\* an unknown participant to itself
MessageDefs ==
    {Message(W_a, W_b, W_a, "solid"), Message(W_b, W_a, W_b, "dashed"),
     Message(W_a, W_a, W_a, "solid"), Message(W_a, W_b, W_long, "solid"),
     Message(W_a, W_c, W_a, "dotted"), Message(W_c, W_c, W_c, "solid")}

SequenceDefs ==
    [title : {None, Some(W_Title)}, style : {"hand-drawn", "clean"},
     participants : ParticipantLists,
     messages : UNION {[1..k -> MessageDefs] : k \in 0..MaxMessages}]

NextSeq ==
    /\ hist = <<>>
    /\ \E diagram \in SequenceDefs : RenderSequenceDef(diagram)

SpecSeq == Init /\ [][NextSeq]_vars

(***************************************************************************)
(* renderFlowDiagram on layouts with one edge: every arrow direction, on   *)
(* routes of one to four points (one with its two points at the same       *)
(* place), with and without a label, in every theme.                       *)
(***************************************************************************)
EdgeRoutes ==
    {<< <<110, 110>>, <<110, 180>> >>,
     << <<110, 180>>, <<110, 110>> >>,
     << <<170, 80>>, <<250, 80>>, <<250, 210>> >>,
     << <<50, 80>>, <<20, 80>>, <<20, 210>>, <<50, 210>> >>,
     << <<110, 110>>, <<110, 110>> >>,
     << <<110, 110>> >>}

EdgeLayouts ==
    {[width |-> 400, height |-> 300,
      nodes |-> <<Node(W_a, 50, 50, 120, 60, W_a, "rectangle", None, None),
                  Node(W_b, 50, 180, 120, 60, W_b, "rectangle", None, None)>>,
      edges |-> <<Edge(W_a, W_b, label, "solid", direction, None, points)>>,
      groups |-> <<>>] :
        label \in {None, Some(W_NodeA)}, direction \in ArrowDirections,
        points \in EdgeRoutes}

NextEdge ==
    /\ hist = <<>>
    /\ \E in \in [layout : EdgeLayouts, theme : Themes, title : {None}] : RenderFlow(in)

SpecEdge == Init /\ [][NextEdge]_vars

(***************************************************************************)
(* Both renders with and without a title: no title, the empty string, a    *)
(* short one, one with a character to escape and one long enough to be     *)
(* wrapped; on layouts with and without content.                           *)
(***************************************************************************)
\* a title of 26 characters
W_LongTitle == [i \in 1..26 |-> IF i % 9 = 0 THEN " " ELSE "t"]

Titles == {None, Some(<<>>), Some(W_a), Some(W_Title), Some(<<"<", "&">>), Some(W_LongTitle)}

emptyLayout == [width |-> 80, height |-> 80, nodes |-> <<>>, edges |-> <<>>, groups |-> <<>>]

TitleFlowInputs ==
    [layout : {simpleLayout, edgeLayout, emptyLayout}, theme : Themes, title : Titles]

TitleSequenceInputs ==
    [layout : {simpleSequence,
               layoutSequenceDiagram([title |-> None, participants |-> <<>>,
                                      messages |-> <<>>]),
               layoutSequenceDiagram([title |-> Some(W_Title),
                                      participants |-> <<Participant(W_a, W_Client)>>,
                                      messages |-> <<Message(W_a, W_a, W_b, "solid")>>])},
     theme : Themes, title : Titles]

NextTitle ==
    /\ hist = <<>>
    /\ \/ \E in \in TitleFlowInputs : RenderFlow(in)
       \/ \E in \in TitleSequenceInputs : RenderSequence(in)

SpecTitle == Init /\ [][NextTitle]_vars

(***************************************************************************)
(* layout/sequence-layout.ts on its own: layoutSequenceDiagram applied to  *)
(* definitions with up to MaxParticipants participants, whose labels give  *)
(* boxes of the minimum width and wider ones, with and without messages    *)
(* from a participant to itself, with no title, an empty one and a title.  *)
(***************************************************************************)
LayoutSequence(diagram) ==
    \E layout \in {layoutSequenceDiagram(diagram)} :
        /\ hist' = Append(hist, [kind |-> "sequenceLayout", in |-> diagram,
                                 layout |-> layout, svg |-> <<>>, drawn |-> seed])
        /\ UNCHANGED <<seed, calls, svcLog, mcpVars>>

MaxParticipants == 3
MaxLayoutMessages == 3

\* labels of 1, 6, 7 and 12 characters: boxes of width 100, 100, 110, 160
W_Gateway == <<"G", "a", "t", "e", "w", "a", "y">>
W_Orchestrator == <<"O", "r", "c", "h", "e", "s", "t", "r", "a", "t", "o", "r">>
LayoutLabels == {W_a, W_Server, W_Gateway, W_Orchestrator}

ParticipantIds == <<W_a, W_b, W_c>>

LayoutParticipants ==
    UNION {{[i \in 1..k |-> Participant(ParticipantIds[((i - 1) % 3) + 1], ls[i])] :
                ls \in [1..k -> LayoutLabels]} : k \in 0..MaxParticipants}

\* a message between two participants and one from a participant to itself
LayoutMessages ==
    UNION {[1..k -> {Message(W_a, W_b, W_a, "solid"), Message(W_b, W_b, W_b, "solid")}] :
                k \in 0..MaxLayoutMessages}

LayoutSequenceDefs ==
    [title : {None, Some(<<>>), Some(W_Title)}, style : {"clean"},
     participants : LayoutParticipants, messages : LayoutMessages]

NextSeqLayout ==
    /\ hist = <<>>
    /\ \E diagram \in LayoutSequenceDefs : LayoutSequence(diagram)

SpecSeqLayout == Init /\ [][NextSeqLayout]_vars

(***************************************************************************)
(* layout/flow-layout.ts on its own: layoutFlowDiagram applied to parsed   *)
(* definitions, the layout service answering the graph it is given.  The   *)
(* parser checks no reference, so the definitions have edges between       *)
(* nodes, to an id no node has and to the id of a group, groups that name  *)
(* nodes, unknown ids or a node another group names too, and nodes and     *)
(* groups that share an id.  A service that rejects the graph leaves no    *)
(* result (LayoutRejected).                                                *)
(***************************************************************************)
LayoutFlow(diagram, variant) ==
    \E result \in {ElkLayout(buildRootGraph(diagram), variant)} :
    \E layout \in {layoutFromResult(diagram, result)} :
        /\ hist' = Append(hist, [kind |-> "flowLayout",
                                 in |-> [diagram |-> diagram, result |-> result],
                                 layout |-> layout, svg |-> <<>>, drawn |-> seed])
        /\ UNCHANGED <<seed, calls, svcLog, mcpVars>>

MaxFlowNodes == 2
MaxFlowEdges == 1
MaxFlowGroups == 2

W_z == <<"z">>
W_g2 == <<"g", "2">>

FlowNode(id, label) ==
    [id |-> id, label |-> label, shape |-> "rectangle", color |-> None,
     textColor |-> None, width |-> None, height |-> None]
FlowEdge(from, to) ==
    [from |-> from, to |-> to, label |-> None, style |-> "solid",
     direction |-> "forward", color |-> None]
FlowGroup(id, contains) ==
    [id |-> id, label |-> None, contains |-> contains, color |-> None]

\* nodes of width 120 (a, b) and 160 (c); the same id may come twice
FlowNodeDefs ==
    {FlowNode(W_a, W_NodeA), FlowNode(W_b, W_b), FlowNode(W_c, W_Orchestrator)}

\* between nodes, to an id that no node has, to the id of a group
FlowEdgeDefs ==
    {FlowEdge(W_a, W_b), FlowEdge(W_c, W_a), FlowEdge(W_a, W_z), FlowEdge(W_a, W_g1)}

\* g1 holds a and b; g2 names a as well; g2 names an unknown id only
FlowGroupDefs ==
    {FlowGroup(W_g1, <<W_a, W_b>>), FlowGroup(W_g2, <<W_a>>), FlowGroup(W_g2, <<W_z>>)}

FlowLayoutDefs ==
    [type : {"flow"}, title : {None}, style : {"clean"}, direction : {"TB", "LR"},
     nodes : UNION {[1..k -> FlowNodeDefs] : k \in 1..MaxFlowNodes},
     edges : UNION {[1..k -> FlowEdgeDefs] : k \in 0..MaxFlowEdges},
     groups : UNION {[1..k -> FlowGroupDefs] : k \in 0..MaxFlowGroups}]

\* layoutFlowDiagram from `await elk.layout(rootGraph)` on, for an answer of
\* the service in which compound nodes lie inside compound nodes and edges
\* lie on them: the walks of the answer at every depth
ExtractFlow(diagram, result) ==
    \E layout \in {layoutFromResult(diagram, result)} :
        /\ hist' = Append(hist, [kind |-> "flowExtract",
                                 in |-> [diagram |-> diagram, result |-> result],
                                 layout |-> layout, svg |-> <<>>, drawn |-> seed])
        /\ UNCHANGED <<seed, calls, svcLog, mcpVars>>

\* a node of an answer: placed at (x, y) relative to the node that holds it
Placed(id, x, y, width, height, children, edges) ==
    [id |-> id, x |-> Some(x), y |-> Some(y), width |-> Some(width),
     height |-> Some(height), children |-> children, edges |-> edges]

\* the edge e0 from a to c routed from (63, 64) by (63, 90) to (5, 90)
RoutedEdge ==
    [id |-> edgeId(FlowEdge(W_a, W_c), 0), sources |-> <<W_a>>, targets |-> <<W_c>>,
     sections |-> <<[startPoint |-> [x |-> 63, y |-> 64],
                     bendPoints |-> <<[x |-> 63, y |-> 90]>>,
                     endPoint |-> [x |-> 5, y |-> 90]]>>]

\* answers of depth 1 to 3: node a and the edge e0 on the root, inside g1 at
\* (gx, gy), or inside g2 at (hx, hy) inside g1; node c on the root
NestedResult(depth, gx, gy, hx, hy) ==
    LET a == Placed(W_a, 3, 4, 120, 60, <<>>, <<>>)
        b == Placed(W_b, 150, 4, 120, 60, <<>>, <<>>)
        c == Placed(W_c, 400, 300, 160, 60, <<>>, <<>>)
        g2 == Placed(W_g2, hx, hy, 200, 100, <<a>>, <<RoutedEdge>>)
        g1 == IF depth = 2
              THEN Placed(W_g1, gx, gy, 300, 200, <<a, b>>, <<RoutedEdge>>)
              ELSE Placed(W_g1, gx, gy, 300, 200, <<g2, b>>, <<>>)
    IN  [id |-> "root", direction |-> "DOWN", width |-> Some(600),
         height |-> Some(400),
         children |-> IF depth = 1 THEN <<a, b, c>> ELSE <<g1, c>>,
         edges |-> IF depth = 1 THEN <<RoutedEdge>> ELSE <<>>]

NestedResults ==
    {NestedResult(depth, gx, gy, hx, hy) :
        depth \in 1..3, gx \in {0, 10, 25}, gy \in {0, 7}, hx \in {0, 5}, hy \in {0, 9}}

\* the definition the nested answers belong to
NestedDiagram ==
    [type |-> "flow", title |-> None, style |-> "clean", direction |-> "TB",
     nodes |-> <<FlowNode(W_a, W_NodeA), FlowNode(W_b, W_b),
                 FlowNode(W_c, W_Orchestrator)>>,
     edges |-> <<FlowEdge(W_a, W_c)>>,
     groups |-> <<FlowGroup(W_g1, <<W_b>>), FlowGroup(W_g2, <<W_a>>)>>]

\* definitions with a group whose id is the empty string, which the schema
\* accepts (id: z.string()): alone, before g1 and after g1
UnnamedGroupDefs ==
    [type : {"flow"}, title : {None}, style : {"clean"}, direction : {"TB"},
     nodes : UNION {[1..k -> FlowNodeDefs] : k \in 1..MaxFlowNodes},
     edges : {<<>>},
     groups : {<<FlowGroup(<<>>, <<W_a>>)>>,
               <<FlowGroup(<<>>, <<W_a>>), FlowGroup(W_g1, <<W_a, W_b>>)>>,
               <<FlowGroup(W_g1, <<W_a, W_b>>), FlowGroup(<<>>, <<W_a>>)>>}]

NextFlowLayout ==
    /\ hist = <<>>
    /\ \/ \E diagram \in FlowLayoutDefs, variant \in ElkVariants :
             LayoutFlow(diagram, variant)
       \/ \E diagram \in UnnamedGroupDefs, variant \in ElkVariants :
             LayoutFlow(diagram, variant)
       \/ \E result \in NestedResults : ExtractFlow(NestedDiagram, result)

SpecFlowLayout == Init /\ [][NextFlowLayout]_vars

(***************************************************************************)
(* index.ts: generateDiagram, one action per stretch of code that runs     *)
(* without suspension.  A call suspends at `await import(...)` in          *)
(* createElk, at `await elk.layout(rootGraph)`, at `await                  *)
(* layoutFlowDiagram(flow)` and at `await renderDiagram(diagram)`.         *)
(***************************************************************************)
NewCall(input, png) ==
    [input |-> input, png |-> png, pc |-> "start", diagram |-> None,
     layout |-> None, svg |-> None, renderNo |-> 0, log |-> <<"parse">>,
     svcFailed |-> FALSE, pngFailed |-> FALSE, result |-> None, error |-> "none"]

Renders == Cardinality({c \in 1..Len(calls) : calls[c].svg # None})

\* generateDiagram(input, {png}) up to its first suspension: parseDiagram,
\* then renderDiagram up to `await import` (flow) or to its end (sequence)
StartCall(input, png) ==
    /\ Len(calls) < MaxCalls
    /\ \E call \in {NewCall(input, png)}, parsed \in {parseDiagram(input)} :
          IF parsed = None
          THEN /\ calls' = Append(calls, [call EXCEPT !.pc = "failed",
                                                      !.error = "SchemaError"])
               /\ seed' = seed
          ELSE IF parsed[1].type = "flow"
          THEN /\ calls' = Append(calls, [call EXCEPT !.pc = "awaitImport",
                                                      !.diagram = parsed])
               /\ seed' = seed
          ELSE IF parsed[1].type = "sequence"
          THEN \E layout \in {layoutSequenceDiagram(parsed[1])} :
               \E r \in {renderSequenceDiagram(layout, parsed[1].style,
                                                parsed[1].title, seed)} :
                  /\ calls' = Append(calls,
                         [call EXCEPT !.pc = "awaitRender", !.diagram = parsed,
                                      !.layout = Some(layout), !.svg = Some(r.svg),
                                      !.renderNo = Renders + 1,
                                      !.log = <<"parse", "layout", "render">>])
                  /\ seed' = r.s
          ELSE /\ calls' = Append(calls, [call EXCEPT !.pc = "failed",
                                                      !.diagram = parsed,
                                                      !.error = "Unsupported"])
               /\ seed' = seed
    /\ UNCHANGED <<hist, svcLog, mcpVars>>

\* layoutFlowDiagram from the resolved import to `await elk.layout`: the
\* graph is built and the layout service is invoked
InvokeLayout(c) ==
    /\ calls[c].pc = "awaitImport"
    /\ calls' = [calls EXCEPT ![c].pc = "awaitLayout",
                              ![c].log = Append(@, "layout")]
    /\ svcLog' = Append(svcLog, c)
    /\ UNCHANGED <<seed, hist, mcpVars>>

\* the layout service answers; layoutFlowDiagram runs to its end
LayoutAnswered(c, variant) ==
    /\ calls[c].pc = "awaitLayout"
    /\ \E graph \in {buildRootGraph(calls[c].diagram[1])} :
          /\ ElkAccepts(graph)
          /\ calls' = [calls EXCEPT
                          ![c].pc = "awaitLayoutFlow",
                          ![c].layout =
                              Some(layoutFromResult(calls[c].diagram[1],
                                                    ElkLayout(graph, variant)))]
    /\ UNCHANGED <<seed, hist, svcLog, mcpVars>>

\* a handling of the failure that goes on with an empty layout
LayoutRejectedFallsBack(c) ==
    /\ calls[c].pc = "awaitLayout"
    /\ calls' = [calls EXCEPT
                    ![c].pc = "awaitLayoutFlow",
                    ![c].svcFailed = TRUE,
                    ![c].layout = Some([width |-> 0, height |-> 0, nodes |-> <<>>,
                                        edges |-> <<>>, groups |-> <<>>])]
    /\ UNCHANGED <<seed, hist, svcLog, mcpVars>>

\* the layout service fails: the rejection passes through layoutFlowDiagram,
\* renderDiagram and generateDiagram, none of which catches it
LayoutRejected(c) ==
    /\ calls[c].pc = "awaitLayout"
    /\ calls' = [calls EXCEPT ![c].pc = "failed",
                              ![c].svcFailed = TRUE,
                              ![c].error = "LayoutError"]
    /\ UNCHANGED <<seed, hist, svcLog, mcpVars>>

\* renderDiagram after `await layoutFlowDiagram(flow)`: renderFlowDiagram
RenderFlowStep(c) ==
    /\ calls[c].pc = "awaitLayoutFlow"
    /\ \E r \in {renderFlowDiagram(calls[c].layout[1], calls[c].diagram[1].style,
                                    calls[c].diagram[1].title, seed)} :
          /\ seed' = r.s
          /\ calls' = [calls EXCEPT ![c].pc = "awaitRender",
                                    ![c].svg = Some(r.svg),
                                    ![c].renderNo = Renders + 1,
                                    ![c].log = Append(@, "render")]
    /\ UNCHANGED <<hist, svcLog, mcpVars>>

\* generateDiagram after `await renderDiagram(diagram)`: the optional PNG,
\* whose rasterisation succeeds (pngOk) or throws, and the return
Finish(c, pngOk) ==
    LET svg == calls[c].svg[1]
    IN  /\ calls[c].pc = "awaitRender"
        /\ calls' =
              IF ~calls[c].png
              THEN [calls EXCEPT ![c].pc = "done",
                                 ![c].result = Some([svg |-> svg, png |-> None])]
              ELSE IF pngOk
              THEN [calls EXCEPT ![c].pc = "done",
                                 ![c].log = Append(@, "png"),
                                 ![c].result = Some([svg |-> svg,
                                                     png |-> Some(svgToPng(svg))])]
              ELSE [calls EXCEPT ![c].pc = "failed",
                                 ![c].log = Append(@, "png"),
                                 ![c].pngFailed = TRUE,
                                 ![c].error = "PngError"]
        /\ UNCHANGED <<seed, hist, svcLog, mcpVars>>

\* raw inputs: a flow diagram, a sequence diagram, a node of unknown shape
\* and a diagram of a type outside the union
RawNode(id, label, shape) ==
    [id |-> id, label |-> label, shape |-> shape, color |-> None,
     textColor |-> None, width |-> None, height |-> None]

FlowIn ==
    [type |-> "flow", title |-> None, style |-> None, direction |-> None,
     nodes |-> <<RawNode(W_a, W_NodeA, None), RawNode(W_b, W_b, Some("diamond"))>>,
     edges |-> Some(<<[from |-> W_a, to |-> W_b, label |-> None, style |-> None,
                       direction |-> None, color |-> None]>>),
     groups |-> None]

SequenceIn ==
    [type |-> "sequence", title |-> Some(W_Title), style |-> None,
     participants |-> <<Participant(W_a, W_Client)>>,
     messages |-> <<[from |-> W_a, to |-> W_a, label |-> W_a, style |-> None,
                     color |-> None]>>]

BadShapeIn ==
    [FlowIn EXCEPT !.nodes = <<RawNode(W_a, W_NodeA, Some("star"))>>,
                   !.edges = None]

BadTypeIn == [SequenceIn EXCEPT !.type = "er"]

\* the calls made: input and options.png
CallInputs ==
    {<<FlowIn, TRUE>>, <<SequenceIn, FALSE>>, <<BadShapeIn, FALSE>>,
     <<BadTypeIn, TRUE>>}

Next ==
    \/ \E in \in CallInputs : StartCall(in[1], in[2])
    \/ \E c \in 1..Len(calls) : InvokeLayout(c)
    \/ \E c \in 1..Len(calls), variant \in ElkVariants : LayoutAnswered(c, variant)
    \/ \E c \in 1..Len(calls) : LayoutRejected(c)
    \/ \E c \in 1..Len(calls) : RenderFlowStep(c)
    \/ \E c \in 1..Len(calls), pngOk \in BOOLEAN : Finish(c, pngOk)

Spec == Init /\ [][Next]_vars

(***************************************************************************)
(* Renders of layouts with several groups, edges and nodes, and of         *)
(* sequence layouts with several participants and messages: an edge of one *)
(* point is not drawn, a message to an unknown participant is not drawn.   *)
(* Also every shape and every edge direction in every theme.               *)
(***************************************************************************)
MaxOrderItems == 2

\* the lists of up to MaxOrderItems different items of a set
ListsOf(items) ==
    UNION {{l \in [1..k -> items] : \A i, j \in 1..k : i # j => l[i] # l[j]} :
              k \in 0..MaxOrderItems}

OrderGroups ==
    {Group(W_g1, None, 30, 30, 200, 250, None),
     Group(W_g2, None, 10, 10, 50, 50, None)}
OrderEdges ==
    {Edge(W_a, W_b, None, "solid", "forward", None, << <<110, 110>>, <<110, 180>> >>),
     Edge(W_b, W_a, None, "dashed", "both", None,
          << <<60, 180>>, <<40, 150>>, <<60, 110>> >>),
     Edge(W_a, W_z, None, "solid", "forward", None, << <<110, 110>> >>)}
OrderNodes ==
    {Node(W_a, 50, 50, 120, 60, W_a, "rectangle", None, None),
     Node(W_b, 50, 180, 120, 60, W_b, "diamond", None, None)}

OrderFlowInputs ==
    [layout : [width : {400}, height : {300},
               nodes : ListsOf(OrderNodes),
               edges : UNION {[1..k -> OrderEdges] : k \in 0..MaxOrderItems},
               groups : ListsOf(OrderGroups)],
     theme : Themes, title : {None}]

OrderParticipants ==
    {[id |-> W_a, label |-> W_Client, x |-> 100, topY |-> 40, bottomY |-> 250,
      width |-> 100, color |-> None],
     [id |-> W_b, label |-> W_Server, x |-> 300, topY |-> 40, bottomY |-> 250,
      width |-> 100, color |-> None]}
OrderMessages ==
    {[from |-> W_a, to |-> W_b, label |-> W_a, y |-> 130, style |-> "solid",
      color |-> None, isSelfMessage |-> FALSE],
     [from |-> W_b, to |-> W_b, label |-> W_b, y |-> 180, style |-> "dashed",
      color |-> None, isSelfMessage |-> TRUE],
     [from |-> W_a, to |-> W_z, label |-> W_z, y |-> 230, style |-> "solid",
      color |-> None, isSelfMessage |-> FALSE]}

OrderSequenceInputs ==
    [layout : [width : {400}, height : {300},
               participants : ListsOf(OrderParticipants) \ {<<>>},
               messages : UNION {[1..k -> OrderMessages] : k \in 0..MaxOrderItems}],
     theme : Themes, title : {None, Some(W_Title)}]

NextOrder ==
    /\ hist = <<>>
    /\ \/ \E in \in OrderFlowInputs : RenderFlow(in)
       \/ \E in \in OrderSequenceInputs : RenderSequence(in)
       \/ \E shape \in Shapes, theme \in Themes, color \in {None, Some(W_red)} :
             RenderFlow([layout |-> ShapeLayout(shape, 120, 60, color),
                         theme |-> theme, title |-> None])
       \/ \E in \in [layout : EdgeLayouts, theme : Themes, title : {Some(W_Title)}] :
             RenderFlow(in)

SpecOrder == Init /\ [][NextOrder]_vars

(***************************************************************************)
(* The RNG on its own: pseudoRandom called again and again from the reset  *)
(* state.  The one entry of hist counts the draws and holds the numerator  *)
(* of the last output, (seed - 1) of (seed - 1) / 2147483646.              *)
(***************************************************************************)
MaxDraws == 500000

DrawsMade == IF hist = <<>> THEN 0 ELSE hist[1].in

Draw ==
    /\ DrawsMade < MaxDraws
    /\ \E s2 \in {pseudoRandom(seed)} :
          /\ seed' = s2
          /\ hist' = <<[kind |-> "draws", in |-> DrawsMade + 1, layout |-> s2 - 1,
                       svg |-> <<>>, drawn |-> s2]>>
    /\ UNCHANGED <<calls, svcLog, mcpVars>>

NextRng == Draw

SpecRng == Init /\ [][NextRng]_vars

(***************************************************************************)
(* The MCP server for Mermaid diagrams: the diagram store, the preview     *)
(* servers and the four tools.  A handler runs without interruption up to  *)
(* `await preview.start()` in ensurePreviewForDiagram, the only point at   *)
(* which it waits for an event; the start of a preview server succeeds or  *)
(* fails.  A started preview server calls onSvgRendered when its browser   *)
(* sends the SVG it rendered.  Writing a file succeeds or throws, at       *)
(* mkdirSync or at writeFileSync.                                          *)
(***************************************************************************)
MaxToolCalls == 3

\* the decimal digits of a number, as `${n}` writes them
RECURSIVE Dec(_)
Dec(n) == IF n < 10 THEN <<Digits[n + 1]>>
          ELSE Dec(n \div 10) \o <<Digits[(n % 10) + 1]>>

DIAGRAM_PREFIX == <<"d", "i", "a", "g", "r", "a", "m", "_">>

\* a generateId that does not advance the counter
generateIdNoIncrement(n) == [id |-> DIAGRAM_PREFIX \o Dec(n), nextId |-> n]

\* generateId: `diagram_${nextId++}`; the id and the counter after the call
generateId(n) == [id |-> DIAGRAM_PREFIX \o Dec(n), nextId |-> n + 1]

\* the entry that generate_mermaid stores: svg "", no filePath, no previewUrl
StoredDiagram(id, syntax) ==
    [id |-> id, syntax |-> syntax, svg |-> <<>>, filePath |-> None,
     previewUrl |-> None]

\* Map.set by the id of the entry: in the place of the entry with that id, at
\* the end when there is none
mapSet(entries, entry) ==
    IF \E k \in 1..Len(entries) : entries[k].id = entry.id
    THEN [k \in 1..Len(entries) |->
            IF entries[k].id = entry.id THEN entry ELSE entries[k]]
    ELSE Append(entries, entry)

\* PreviewServer: the diagram it was made for, its url, its title, the
\* content it shows, its clients and whether its http server listens.  A
\* client is a socket: its readyState (1 when open, 2 when closing), the
\* messages sent to it, how many of them its browser has handled, and the
\* messages of the browser on their way to the server
PREVIEW_TITLE == "Sketchdraw Preview"
HTTP_LOCALHOST ==
    <<"h", "t", "t", "p", ":", "/", "/", "l", "o", "c", "a", "l", "h", "o", "s", "t", ":">>

TitleMessage(title) == [type |-> "title", title |-> title]
MermaidMessage(id, syntax) == [type |-> "mermaid", syntax |-> syntax, id |-> id]
SvgResult(id, svg) == [type |-> "svg-result", id |-> id, svg |-> svg]

\* ws.send(JSON.stringify(message))
send(ws, message) == [ws EXCEPT !.sent = Append(@, message)]

\* broadcast: to the clients whose readyState is 1
broadcast(preview, message) ==
    [preview EXCEPT !.clients =
        [k \in 1..Len(preview.clients) |->
            IF preview.clients[k].readyState = 1
            THEN send(preview.clients[k], message)
            ELSE preview.clients[k]]]

setTitle(preview, title) ==
    broadcast([preview EXCEPT !.title = title], TitleMessage(title))

\* updateMermaid(id, syntax, title) on a preview server
updateMermaid(preview, id, syntax, title) ==
    Bind(IF Truthy(title) THEN setTitle(preview, title[1]) ELSE preview, LAMBDA p :
        broadcast([p EXCEPT !.content = Some(MermaidMessage(id, syntax))],
                  MermaidMessage(id, syntax)))

\* a connection handler that does not send the content
connectionTitleOnly(preview) ==
    [preview EXCEPT !.clients =
        Append(@, [readyState |-> 1, sent |-> <<TitleMessage(preview.title)>>,
                   handled |-> 0, inbox |-> <<>>])]

\* wss.on("connection"): the socket joins the clients and is sent the title
\* and, when there is one, the current content
connection(preview) ==
    [preview EXCEPT !.clients =
        Append(@, [readyState |-> 1,
                   sent |-> <<TitleMessage(preview.title)>> \o
                            (IF preview.content # None
                             THEN <<preview.content[1]>> ELSE <<>>),
                   handled |-> 0, inbox |-> <<>>])]

\* stop(): every client is asked to close, the http server stops listening
stop(preview) ==
    [preview EXCEPT !.clients = [k \in 1..Len(preview.clients) |->
                                    [preview.clients[k] EXCEPT !.readyState = 2]],
                    !.listening = FALSE]

\* the server made for diagram id once start() has resolved with a port
startedPreview(id, port) ==
    [id |-> id, url |-> HTTP_LOCALHOST \o Dec(port), title |-> PREVIEW_TITLE,
     content |-> None, clients |-> <<>>, listening |-> TRUE]

\* the entry of previewServers for the server at place sv of servers
PreviewEntry(id, sv, url) == [id |-> id, server |-> sv, url |-> url]

\* mermaid.render in the browser: an SVG that shows the syntax
SVG_TAG == <<"<", "s", "v", "g", ">">>
MermaidSvg(syntax) == SVG_TAG \o syntax

\* path.resolve and path.dirname on paths given as sequences of segments, an
\* absolute path starting with "/"
CWD == <<"/", "home">>
resolve(path) == IF path # <<>> /\ path[1] = "/" THEN path ELSE CWD \o path
dirname(path) == IF Len(path) > 1 THEN SubSeq(path, 1, Len(path) - 1) ELSE path

\* mkdirSync(dir, {recursive: true}): the directory and those above it
mkdirSync(fs, dir) ==
    [fs EXCEPT !.dirs = @ \cup {SubSeq(dir, 1, k) : k \in 1..Len(dir)}]

\* writeFileSync(path, data): the file at path holds data
writeFileSync(fs, path, data) ==
    [fs EXCEPT !.files = mapSet(@, [id |-> path, data |-> data])]

\* d.syntax.split("\n")[0].trim()
RECURSIVE trimStart(_)
trimStart(s) == IF s # <<>> /\ IsSpace(Head(s)) THEN trimStart(Tail(s)) ELSE s
firstLine(syntax) ==
    LET upTo == IF \E k \in 1..Len(syntax) : syntax[k] = "\n"
                THEN (CHOOSE k \in 1..Len(syntax) :
                         syntax[k] = "\n" /\ \A j \in 1..(k - 1) : syntax[j] # "\n") - 1
                ELSE Len(syntax)
    IN  Reverse(trimStart(Reverse(trimStart(SubSeq(syntax, 1, upTo)))))

\* a tool call: its arguments, where it stands and what it returned
ToolCall(tool, diagram_id, syntax, title, path, pc, isError, text, preview, lines) ==
    [tool |-> tool, diagram_id |-> diagram_id, syntax |-> syntax, title |-> title,
     path |-> path, pc |-> pc, isError |-> isError, text |-> text,
     preview |-> preview, lines |-> lines]

\* generate_mermaid up to `await preview.start()`: the entry is stored under
\* a new id before the preview is asked for
GenerateMermaid(syntax, title) ==
    /\ running /\ Len(toolCalls) < MaxToolCalls
    /\ \E g \in {generateId(nextId)} :
          /\ nextId' = g.nextId
          /\ \E existing \in {getById(previewServers, g.id)} :
                IF existing # <<>>
                THEN /\ diagrams' = mapSet(diagrams,
                            [StoredDiagram(g.id, syntax) EXCEPT
                                !.previewUrl = Some(existing[1].url)])
                     /\ servers' = [servers EXCEPT ![existing[1].server] =
                                        updateMermaid(@, g.id, syntax, title)]
                     /\ toolCalls' = Append(toolCalls,
                            ToolCall("generate_mermaid", g.id, syntax, title, None,
                                     "done", FALSE, "sent to preview",
                                     Some(existing[1].url), <<>>))
                ELSE /\ diagrams' = mapSet(diagrams, StoredDiagram(g.id, syntax))
                     /\ servers' = servers
                     /\ toolCalls' = Append(toolCalls,
                            ToolCall("generate_mermaid", g.id, syntax, title, None,
                                     "awaitStart", FALSE, "", None, <<>>))
    /\ UNCHANGED <<previewServers, fileSystem, running, coreVars>>

\* update_diagram up to its return or to `await preview.start()`
UpdateDiagram(diagram_id, syntax, title) ==
    /\ running /\ Len(toolCalls) < MaxToolCalls
    /\ \E stored \in {getById(diagrams, diagram_id)} :
       \E existing \in {getById(previewServers, diagram_id)} :
          IF stored = <<>>
          THEN /\ toolCalls' = Append(toolCalls,
                      ToolCall("update_diagram", diagram_id, syntax, title, None,
                               "done", TRUE, "Diagram not found", None, <<>>))
               /\ UNCHANGED <<diagrams, servers>>
          ELSE /\ diagrams' = mapSet(diagrams, [stored[1] EXCEPT !.syntax = syntax,
                                                                !.svg = <<>>])
               /\ IF existing # <<>>
                  THEN /\ servers' = [servers EXCEPT ![existing[1].server] =
                                         updateMermaid(@, diagram_id, syntax, title)]
                       /\ toolCalls' = Append(toolCalls,
                              ToolCall("update_diagram", diagram_id, syntax, title, None,
                                       "done", FALSE, "updated successfully",
                                       Some(existing[1].url), <<>>))
                  ELSE /\ servers' = servers
                       /\ toolCalls' = Append(toolCalls,
                              ToolCall("update_diagram", diagram_id, syntax, title, None,
                                       "awaitStart", FALSE, "", None, <<>>))
    /\ UNCHANGED <<nextId, previewServers, fileSystem, running, coreVars>>

\* `await preview.start()` resolves for call c: the server listens,
\* ensurePreviewForDiagram sets the entry of the id (in the place of the one
\* that another call may have set meanwhile), pushMermaidToPreview updates
\* the server, the handler returns
PreviewStarted(c) ==
    /\ running /\ toolCalls[c].pc = "awaitStart"
    /\ \E call \in {toolCalls[c]} :
       \E entry \in {startedPreview(toolCalls[c].diagram_id, 49152 + c)} :
          /\ servers' = Append(servers,
                               updateMermaid(entry, call.diagram_id, call.syntax,
                                             call.title))
          /\ previewServers' =
                mapSet(previewServers,
                       PreviewEntry(call.diagram_id, Len(servers) + 1, entry.url))
          /\ diagrams' =
                IF call.tool = "generate_mermaid" /\ getById(diagrams, call.diagram_id) # <<>>
                THEN mapSet(diagrams, [getById(diagrams, call.diagram_id)[1] EXCEPT
                                          !.previewUrl = Some(entry.url)])
                ELSE diagrams
          /\ toolCalls' = [toolCalls EXCEPT
                              ![c].pc = "done",
                              ![c].text = IF call.tool = "generate_mermaid"
                                          THEN "sent to preview"
                                          ELSE "updated successfully",
                              ![c].preview = Some(entry.url)]
    /\ UNCHANGED <<nextId, fileSystem, running, coreVars>>

\* `await preview.start()` rejects for call c: no preview, the handler returns
PreviewFailed(c) ==
    /\ running /\ toolCalls[c].pc = "awaitStart"
    /\ toolCalls' = [toolCalls EXCEPT
                        ![c].pc = "done",
                        ![c].text = IF toolCalls[c].tool = "generate_mermaid"
                                    THEN "sent to preview"
                                    ELSE "updated successfully"]
    /\ UNCHANGED <<diagrams, nextId, previewServers, servers, fileSystem, running,
                   coreVars>>

\* a browser opens the page of a server: the connection handler runs
Connect(sv, max) ==
    /\ running /\ servers[sv].listening /\ Len(servers[sv].clients) < max
    /\ servers' = [servers EXCEPT ![sv] = connection(@)]
    /\ UNCHANGED <<diagrams, nextId, previewServers, fileSystem, toolCalls, running,
                   coreVars>>

\* ws.onmessage in the browser, for the next message sent to client cl of
\* server sv: a title is shown; a content is rendered and, when mermaid
\* renders it (ok) and the socket is open, sent back as an svg-result
BrowserHandles(sv, cl, ok) ==
    /\ running
    /\ \E ws \in {servers[sv].clients[cl]} :
          /\ ws.handled < Len(ws.sent)
          /\ \E data \in {ws.sent[ws.handled + 1]} :
                servers' = [servers EXCEPT ![sv].clients[cl] =
                    [ws EXCEPT !.handled = @ + 1,
                               !.inbox = IF data.type = "mermaid" /\ ok
                                            /\ ws.readyState = 1
                                         THEN Append(@, SvgResult(data.id,
                                                                  MermaidSvg(data.syntax)))
                                         ELSE @]]
    /\ UNCHANGED <<diagrams, nextId, previewServers, fileSystem, toolCalls, running,
                   coreVars>>

\* ws.on("message") for the next message of client cl of server sv, an
\* svg-result with an id and an svg: onSvgRendered(msg.id, msg.svg) sets the
\* svg of the stored diagram
SvgRendered(sv, cl) ==
    /\ running /\ servers[sv].clients[cl].inbox # <<>>
    /\ \E msg \in {Head(servers[sv].clients[cl].inbox)} :
       \E stored \in {getById(diagrams, msg.id)} :
          /\ diagrams' = IF msg.type = "svg-result" /\ msg.id # <<>> /\ msg.svg # <<>>
                             /\ stored # <<>>
                         THEN mapSet(diagrams, [stored[1] EXCEPT !.svg = msg.svg])
                         ELSE diagrams
          /\ servers' = [servers EXCEPT ![sv].clients[cl].inbox = Tail(@)]
    /\ UNCHANGED <<nextId, previewServers, fileSystem, toolCalls, running, coreVars>>

\* the socket of client cl of server sv starts to close
SocketClosing(sv, cl) ==
    /\ running /\ servers[sv].clients[cl].readyState = 1
    /\ servers' = [servers EXCEPT ![sv].clients[cl].readyState = 2]
    /\ UNCHANGED <<diagrams, nextId, previewServers, fileSystem, toolCalls, running,
                   coreVars>>

\* ws.on("close"): the socket has closed and leaves the clients
SocketClosed(sv, cl) ==
    /\ running /\ servers[sv].clients[cl].readyState = 2
    /\ servers' = [servers EXCEPT ![sv].clients =
                       SubSeq(@, 1, cl - 1) \o SubSeq(@, cl + 1, Len(@))]
    /\ UNCHANGED <<diagrams, nextId, previewServers, fileSystem, toolCalls, running,
                   coreVars>>

\* list_diagrams
ListDiagrams ==
    /\ running /\ Len(toolCalls) < MaxToolCalls
    /\ toolCalls' = Append(toolCalls,
          ToolCall("list_diagrams", None, None, None, None, "done", FALSE,
                   IF Len(diagrams) = 0 THEN "No diagrams generated yet." ELSE "lines",
                   None,
                   [k \in 1..Len(diagrams) |->
                       [id |-> diagrams[k].id,
                        svgAvailable |-> IF diagrams[k].svg # <<>> THEN "yes" ELSE "no",
                        syntax |-> firstLine(diagrams[k].syntax),
                        preview |-> diagrams[k].previewUrl,
                        file |-> diagrams[k].filePath]]))
    /\ UNCHANGED <<diagrams, nextId, previewServers, servers, fileSystem, running,
                   coreVars>>

\* an export_diagram that makes the directory before it looks at the diagram
ExportDiagramMkdirFirst(diagram_id, path, disk) ==
    /\ running /\ Len(toolCalls) < MaxToolCalls
    /\ \E stored \in {getById(diagrams, diagram_id)} :
       \E outPath \in {resolve(path)} :
          CASE stored = <<>> ->
                /\ toolCalls' = Append(toolCalls,
                      ToolCall("export_diagram", diagram_id, None, None, Some(path),
                               "done", TRUE, "Diagram not found", None, <<>>))
                /\ fileSystem' = mkdirSync(fileSystem, dirname(outPath))
                /\ UNCHANGED diagrams
            [] stored # <<>> /\ stored[1].svg = <<>> ->
                /\ toolCalls' = Append(toolCalls,
                      ToolCall("export_diagram", diagram_id, None, None, Some(path),
                               "done", TRUE, "SVG not yet available", None, <<>>))
                /\ fileSystem' = mkdirSync(fileSystem, dirname(outPath))
                /\ UNCHANGED diagrams
            [] stored # <<>> /\ stored[1].svg # <<>> /\ disk = "mkdirSync throws" ->
                /\ toolCalls' = Append(toolCalls,
                      ToolCall("export_diagram", diagram_id, None, None, Some(path),
                               "done", TRUE, "thrown", None, <<>>))
                /\ fileSystem' = mkdirSync(fileSystem, dirname(outPath))
                /\ UNCHANGED diagrams
            [] stored # <<>> /\ stored[1].svg # <<>> /\ disk = "writeFileSync throws" ->
                /\ fileSystem' = mkdirSync(fileSystem, dirname(outPath))
                /\ toolCalls' = Append(toolCalls,
                      ToolCall("export_diagram", diagram_id, None, None, Some(path),
                               "done", TRUE, "thrown", None, <<>>))
                /\ UNCHANGED diagrams
            [] OTHER ->
                /\ fileSystem' = writeFileSync(mkdirSync(fileSystem, dirname(outPath)),
                                               outPath, stored[1].svg)
                /\ diagrams' = mapSet(diagrams,
                                      [stored[1] EXCEPT !.filePath = Some(outPath)])
                /\ toolCalls' = Append(toolCalls,
                      ToolCall("export_diagram", diagram_id, None, None, Some(path),
                               "done", FALSE, "Exported SVG", None, <<>>))
    /\ UNCHANGED <<nextId, previewServers, servers, running, coreVars>>

\* export_diagram; disk says whether mkdirSync and writeFileSync succeed
ExportDiagram(diagram_id, path, disk) ==
    /\ running /\ Len(toolCalls) < MaxToolCalls
    /\ \E stored \in {getById(diagrams, diagram_id)} :
       \E outPath \in {resolve(path)} :
          CASE stored = <<>> ->
                /\ toolCalls' = Append(toolCalls,
                      ToolCall("export_diagram", diagram_id, None, None, Some(path),
                               "done", TRUE, "Diagram not found", None, <<>>))
                /\ UNCHANGED <<diagrams, fileSystem>>
            [] stored # <<>> /\ stored[1].svg = <<>> ->
                /\ toolCalls' = Append(toolCalls,
                      ToolCall("export_diagram", diagram_id, None, None, Some(path),
                               "done", TRUE, "SVG not yet available", None, <<>>))
                /\ UNCHANGED <<diagrams, fileSystem>>
            [] stored # <<>> /\ stored[1].svg # <<>> /\ disk = "mkdirSync throws" ->
                /\ toolCalls' = Append(toolCalls,
                      ToolCall("export_diagram", diagram_id, None, None, Some(path),
                               "done", TRUE, "thrown", None, <<>>))
                /\ UNCHANGED <<diagrams, fileSystem>>
            [] stored # <<>> /\ stored[1].svg # <<>> /\ disk = "writeFileSync throws" ->
                /\ fileSystem' = mkdirSync(fileSystem, dirname(outPath))
                /\ toolCalls' = Append(toolCalls,
                      ToolCall("export_diagram", diagram_id, None, None, Some(path),
                               "done", TRUE, "thrown", None, <<>>))
                /\ UNCHANGED diagrams
            [] OTHER ->
                /\ fileSystem' = writeFileSync(mkdirSync(fileSystem, dirname(outPath)),
                                               outPath, stored[1].svg)
                /\ diagrams' = mapSet(diagrams,
                                      [stored[1] EXCEPT !.filePath = Some(outPath)])
                /\ toolCalls' = Append(toolCalls,
                      ToolCall("export_diagram", diagram_id, None, None, Some(path),
                               "done", FALSE, "Exported SVG", None, <<>>))
    /\ UNCHANGED <<nextId, previewServers, servers, running, coreVars>>

\* SIGINT or SIGTERM: the servers of previewServers are stopped and
\* forgotten, the process exits
Shutdown ==
    /\ running
    /\ servers' = [sv \in 1..Len(servers) |->
                      IF \E k \in 1..Len(previewServers) : previewServers[k].server = sv
                      THEN stop(servers[sv]) ELSE servers[sv]]
    /\ previewServers' = <<>>
    /\ running' = FALSE
    /\ UNCHANGED <<diagrams, nextId, fileSystem, toolCalls, coreVars>>

\* inputs: two syntaxes, the second with blanks around its first line; the
\* ids of the first two diagrams and one that is never generated; a relative
\* and an absolute path
SyntaxA == <<"A", "-", "-", ">", "B">>
SyntaxB == <<" ", "g", "r", "a", "p", "h", " ", "\n", "A">>
Syntaxes == {SyntaxA, SyntaxB}
MaxBrowsers == 1
ToolIds == {DIAGRAM_PREFIX \o <<"1">>, DIAGRAM_PREFIX \o <<"7">>}
ToolPaths == {<<"out", "a.svg">>, <<"/", "tmp", "a.svg">>}
DiskOutcomes == {"ok", "mkdirSync throws", "writeFileSync throws"}

NextMcp ==
    \/ \E syntax \in Syntaxes, title \in {None, Some(W_Title)} :
          GenerateMermaid(syntax, title)
    \/ \E id \in ToolIds, syntax \in Syntaxes : UpdateDiagram(id, syntax, None)
    \/ \E c \in 1..Len(toolCalls) : PreviewStarted(c)
    \/ \E c \in 1..Len(toolCalls) : PreviewFailed(c)
    \/ \E sv \in 1..Len(servers) : Connect(sv, MaxBrowsers)
    \/ \E sv \in 1..Len(servers) : \E cl \in 1..Len(servers[sv].clients) :
          BrowserHandles(sv, cl, TRUE)
    \/ \E sv \in 1..Len(servers) : \E cl \in 1..Len(servers[sv].clients) :
          SvgRendered(sv, cl)
    \/ ListDiagrams
    \/ \E id \in ToolIds, path \in ToolPaths, disk \in DiskOutcomes :
          ExportDiagram(id, path, disk)
    \/ Shutdown

SpecMcp == Init /\ [][NextMcp]_vars

(***************************************************************************)
(* One diagram and its preview server, with browsers that come and go:     *)
(* generate_mermaid, then update_diagram calls for the diagram, one call   *)
(* at a time, while clients connect and close.  What the server sends      *)
(* does not depend on what the browsers do with it, which is left out.     *)
(***************************************************************************)
MaxClients == 2

NextPreview ==
    \/ \E title \in {None, Some(W_Title)} :
          nextId = 1 /\ GenerateMermaid(SyntaxA, title)
    \/ \E syntax \in Syntaxes, title \in {None, Some(W_NodeA)} :
          /\ \A c \in 1..Len(toolCalls) : toolCalls[c].pc = "done"
          /\ UpdateDiagram(DIAGRAM_PREFIX \o <<"1">>, syntax, title)
    \/ \E c \in 1..Len(toolCalls) : PreviewStarted(c)
    \/ \E sv \in 1..Len(servers) : Connect(sv, MaxClients)
    \/ \E sv \in 1..Len(servers) : \E cl \in 1..Len(servers[sv].clients) :
          SocketClosing(sv, cl)
    \/ \E sv \in 1..Len(servers) : \E cl \in 1..Len(servers[sv].clients) :
          SocketClosed(sv, cl)
    \/ Shutdown

SpecPreview == Init /\ [][NextPreview]_vars

(***************************************************************************)
(* Properties.                                                             *)
(***************************************************************************)
\* what the same input yields in a freshly loaded module (seed = 42)
FreshSvg(h) ==
    IF h.kind = "flow"
    THEN renderFlowDiagram(h.layout, h.in.theme, h.in.title, SEED0).svg
    ELSE renderSequenceDiagram(h.layout, h.in.theme, h.in.title, SEED0).svg

\* C1: determinism of the two top-level renders.  Every render, whatever
\* was rendered before it, returns the SVG its input yields in a freshly
\* loaded module; hence two renders of the same input return the same SVG.
C1_Determinism ==
    /\ \A i \in 1..Len(hist) : hist[i].svg = FreshSvg(hist[i])
    /\ \A i, j \in 1..Len(hist) :
          (hist[i].kind = hist[j].kind /\ hist[i].in = hist[j].in)
              => hist[i].svg = hist[j].svg

\* C1 witness: a hand-drawn input rendered twice in a row, the first render
\* having consumed random draws.
C1_Witness ==
    \E i, j \in 1..Len(hist) :
        /\ i < j
        /\ hist[i].kind = hist[j].kind
        /\ hist[i].in = hist[j].in
        /\ hist[i].in.theme = "hand-drawn"
        /\ hist[i].drawn # SEED0

\* str occurs, contiguously, in a text content or an interpolated
\* attribute value of the document
AppearsIn(svg, str) ==
    \E e \in 1..Len(svg) :
        \/ Contains(svg[e].txt, str)
        \/ \E k \in 1..Len(svg[e].strs) : Contains(svg[e].strs[k], str)

HasSpace(str) == \E i \in 1..Len(str) : IsSpace(str[i])

XmlSpecials == {"&", "<", ">", "\"", "'"}
Entities == {S_amp, S_lt, S_gt, S_quot, S_apos}

EntityAt(str, i) ==
    \E e \in Entities :
        /\ i + Len(e) - 1 <= Len(str)
        /\ SubSeq(str, i, i + Len(e) - 1) = e

\* no special character occurs in str except "&" opening an entity
WellEscaped(str) ==
    \A i \in 1..Len(str) :
        /\ str[i] \notin (XmlSpecials \ {"&"})
        /\ str[i] = "&" => EntityAt(str, i)

\* every character replaced by its entity, in one pass
escapeOnce(str) ==
    Concat([i \in 1..Len(str) |->
        CASE str[i] = "&" -> S_amp
          [] str[i] = "<" -> S_lt
          [] str[i] = ">" -> S_gt
          [] str[i] = "\"" -> S_quot
          [] str[i] = "'" -> S_apos
          [] OTHER -> <<str[i]>>])

\* C9 as stated: every user string written into the SVG (ids, from/to,
\* labels, title, colour values) is escaped: no special character of the
\* input occurs unescaped in a text content or an attribute value, and the
\* string occurs escaped exactly once.
C9_AllUserStringsEscaped ==
    \A i \in 1..Len(hist) :
        /\ \A e \in 1..Len(hist[i].svg) :
              /\ WellEscaped(hist[i].svg[e].txt)
              /\ \A k \in 1..Len(hist[i].svg[e].strs) :
                    WellEscaped(hist[i].svg[e].strs[k])
        /\ "u" \in DOMAIN hist[i].in
              => AppearsIn(hist[i].svg, escapeOnce(hist[i].in.u))

\* elements that draw geometry, the background rectangle excepted
GeomTags == {"rect", "ellipse", "polygon", "path", "line"}

BodyTags(svg) ==
    {svg[e].tag : e \in {k \in 1..Len(svg) :
        /\ svg[k].tag \in GeomTags
        /\ \A a \in 1..Len(svg[k].attrs) : svg[k].attrs[a] # "background"}}

\* renders of one node alone: the geometry of the document is the shape body
OneNode(h) ==
    /\ h.kind = "flow"
    /\ Len(h.layout.nodes) = 1
    /\ h.layout.edges = <<>>
    /\ h.layout.groups = <<>>

\* C10 as stated: with jitterAmount = 0 the body of each of the seven
\* shapes uses only rect, ellipse or polygon and no path; with
\* jitterAmount > 0 it has at least one path.
C10_NativeOrPathAllShapes ==
    \A i \in 1..Len(hist) :
        OneNode(hist[i]) =>
            LET tags == BodyTags(hist[i].svg)
            IN  IF getThemeConfig(hist[i].in.theme).jitterAmount = 0
                THEN tags \subseteq {"rect", "ellipse", "polygon"}
                ELSE "path" \in tags

\* C10 amended: with jitterAmount = 0 the body of a rectangle, ellipse,
\* diamond, hexagon or parallelogram uses only rect, ellipse or polygon and
\* no path; the body of a cylinder uses rect, ellipse and line and no path;
\* the body of a cloud is a path in every theme; with jitterAmount > 0 the
\* body of every shape has at least one path.
C10_NativeOrPath ==
    \A i \in 1..Len(hist) :
        OneNode(hist[i]) =>
            LET tags == BodyTags(hist[i].svg)
                shape == hist[i].layout.nodes[1].shape
            IN  IF getThemeConfig(hist[i].in.theme).jitterAmount > 0
                THEN "path" \in tags
                ELSE CASE shape = "cloud" -> tags = {"path"}
                       [] shape = "cylinder" -> tags = {"rect", "ellipse", "line"}
                       [] OTHER -> /\ tags \subseteq {"rect", "ellipse", "polygon"}
                                   /\ tags # {}

\* C10 witness: a diamond rendered alone in a theme without jitter.
C10_Witness ==
    \E i \in 1..Len(hist) :
        /\ OneNode(hist[i])
        /\ hist[i].layout.nodes[1].shape = "diamond"
        /\ getThemeConfig(hist[i].in.theme).jitterAmount = 0
        /\ BodyTags(hist[i].svg) = {"polygon"}

\* the points of an element of a sequence diagram that claim edges: the
\* corners of a rectangle, the ends of a line, the points of a path
EdgePoints(el) ==
    CASE el.tag = "rect" ->
            {<<el.nums[1], el.nums[2]>>,
             <<el.nums[1] + el.nums[3], el.nums[2] + el.nums[4]>>}
      [] el.tag \in {"line", "path"} ->
            {<<el.nums[2 * k - 1], el.nums[2 * k]>> : k \in 1..(Len(el.nums) \div 2)}
      [] OTHER -> {}

\* the elements inside the translate group of a document with a title, all
\* elements after the background otherwise
Positioned(svg) ==
    {e \in 3..Len(svg) : svg[e].tag \in {"rect", "line", "path"}}

\* C8 as stated: in the render of a laid out sequence diagram, the boxes,
\* lifelines, message lines, self-message loops and label background
\* rectangles lie, after the title translate, within [0, width] x [0, height]
\* of the document.
C8_SequenceWithinBounds ==
    \A i \in 1..Len(hist) :
        hist[i].kind = "sequence" =>
            LET svg == hist[i].svg
                width == svg[1].nums[1]
                height == svg[1].nums[2]
                dy == IF Truthy(hist[i].in.title) THEN TITLE_OFFSET * 10 ELSE 0
            IN  \A e \in Positioned(svg) :
                    \A pt \in EdgePoints(svg[e]) :
                        /\ 0 <= pt[1] /\ pt[1] <= width
                        /\ 0 <= pt[2] + dy /\ pt[2] + dy <= height

\* what the diagram of a call yields when it is rendered alone, in a freshly
\* loaded module: the document and the seed left behind
StandAlone(call) ==
    LET diagram == call.diagram[1]
    IN  IF diagram.type = "flow"
        THEN renderFlowDiagram(call.layout[1], diagram.style, diagram.title, SEED0)
        ELSE renderSequenceDiagram(layoutSequenceDiagram(diagram), diagram.style,
                                   diagram.title, SEED0)

\* C2: with several generateDiagram calls in flight, a render is never
\* interleaved with another: the SVG of every call is the SVG its diagram
\* yields alone, and the seed is always the one left by the latest render
\* run from resetSeed to its last draw (42 before any render).
C2_RendersNotInterleaved ==
    /\ Renders = 0 => seed = SEED0
    /\ \A c \in 1..Len(calls) :
          calls[c].svg # None =>
              \A alone \in {StandAlone(calls[c])} :
                  /\ calls[c].svg[1] = alone.svg
                  /\ calls[c].renderNo > 0
                  /\ calls[c].renderNo = Renders => seed = alone.s

\* C2 witness: a flow call that was suspended at the layout service while a
\* later call rendered with jitter, and that then rendered and returned.
C2_Witness ==
    \E c, d \in 1..Len(calls) :
        /\ c < d
        /\ calls[c].pc = "done"
        /\ calls[c].diagram[1].type = "flow"
        /\ calls[c].diagram[1].style = "hand-drawn"
        /\ calls[d].renderNo > 0
        /\ calls[d].renderNo < calls[c].renderNo
        /\ StandAlone(calls[d]).s # SEED0

StageOrder == <<"parse", "layout", "render", "png">>

InOrder(log) == Len(log) <= Len(StageOrder) /\ log = SubSeq(StageOrder, 1, Len(log))

Invoked(log, c) == \E k \in 1..Len(log) : log[k] = c

C3_Step ==
    \A c \in 1..Len(calls') :
        /\ InOrder(calls'[c].log)
        /\ ~DiagramSchema(calls'[c].input) =>
              /\ calls'[c].pc = "failed"
              /\ calls'[c].error = "SchemaError"
              /\ calls'[c].log = <<"parse">>
              /\ ~Invoked(svcLog', c)
              /\ calls'[c].layout = None
              /\ calls'[c].svg = None
              /\ calls'[c].result = None
              /\ c > Len(calls) => (seed' = seed /\ svcLog' = svcLog)

\* C3: the stages of a call run in the order parse, layout, render, PNG; a
\* call whose input fails the schema fails with the schema error in the step
\* that starts it, which leaves the seed and the layout service untouched,
\* and it never has a layout, an SVG or a result.
C3_SchemaFailsFirst == [][C3_Step]_vars

\* C3 witness: a call failed on the schema after another call had rendered
\* and moved the seed.
C3_Witness ==
    \E c \in 1..Len(calls) :
        /\ ~DiagramSchema(calls[c].input)
        /\ calls[c].error = "SchemaError"
        /\ seed # SEED0
        /\ \E d \in 1..(c - 1) : calls[d].svg # None

C4_Step ==
    \A c \in 1..Len(calls') :
        calls'[c].svcFailed =>
            /\ calls'[c].pc = "failed"
            /\ calls'[c].error = "LayoutError"
            /\ calls'[c].svg = None
            /\ calls'[c].result = None
            /\ calls'[c].renderNo = 0
            /\ calls'[c].log = <<"parse", "layout">>
            /\ (c <= Len(calls) /\ ~calls[c].svcFailed) => seed' = seed

\* C4: when the layout service fails for a flow call, the call fails with
\* that failure, has no SVG and no result, never enters the renderer, and
\* the step in which it fails leaves the seed unchanged.
C4_LayoutFailurePropagates == [][C4_Step]_vars

\* C4 witness: a flow call failed by the layout service after another call
\* had rendered and moved the seed.
C4_Witness ==
    \E c \in 1..Len(calls) :
        /\ calls[c].svcFailed
        /\ calls[c].error = "LayoutError"
        /\ Invoked(svcLog, c)
        /\ seed # SEED0

\* C5 as stated: when the PNG is requested and rasterisation fails, the
\* caller gets the failure together with the SVG already produced.
C5_SvgAvailableOnPngFailure ==
    \A c \in 1..Len(calls) :
        calls[c].pngFailed =>
            /\ calls[c].error = "PngError"
            /\ calls[c].result # None
            /\ calls[c].result[1].svg = calls[c].svg[1]

\* C6: a call on a valid input that returns has a result with the rendered
\* SVG document; the result has a PNG exactly when the PNG was requested,
\* and the PNG is rasterised, at scale 2, from the SVG of the same result.
C6_ResultShape ==
    \A c \in 1..Len(calls) :
        (DiagramSchema(calls[c].input) /\ calls[c].pc = "done") =>
            LET result == calls[c].result[1]
            IN  /\ calls[c].result # None
                /\ result.svg = calls[c].svg[1]
                /\ Len(result.svg) >= 2
                /\ result.svg[1].tag = "svg"
                /\ result.svg[Len(result.svg)].tag = "/svg"
                /\ (result.png # None) <=> calls[c].png
                /\ result.png # None =>
                      /\ result.png[1].source = result.svg
                      /\ result.png[1].scale = PNG_SCALE

\* C6 witness: a returned call with the PNG requested, and one without.
C6_Witness ==
    /\ \E c \in 1..Len(calls) :
          calls[c].pc = "done" /\ calls[c].png /\ calls[c].result[1].png # None
    /\ \E c \in 1..Len(calls) :
          calls[c].pc = "done" /\ ~calls[c].png /\ calls[c].result[1].png = None


(***************************************************************************)
(* Sequence layout: order of the participants and of the messages.         *)
(***************************************************************************)
SequenceLayouts == {i \in 1..Len(hist) : hist[i].kind = "sequenceLayout"}

\* C11: the participant centres returned by layoutSequenceDiagram increase
\* strictly in input order; the first box starts at x = 40 and each next box
\* starts exactly 60 to the right of the right edge of the box before it.
C11_ParticipantsLeftToRight ==
    \A i \in SequenceLayouts :
        \A p \in {hist[i].layout.participants} :
            /\ Len(p) = Len(hist[i].in.participants)
            /\ Len(p) > 0 => 2 * p[1].x - p[1].width = 2 * 40
            /\ \A k \in 1..(Len(p) - 1) :
                /\ p[k].x < p[k + 1].x
                /\ 2 * p[k + 1].x - p[k + 1].width = 2 * p[k].x + p[k].width + 2 * 60

\* three participants laid out, boxes of different widths among them
C11_Witness ==
    \E i \in SequenceLayouts :
        /\ Len(hist[i].layout.participants) = 3
        /\ hist[i].layout.participants[1].width = 160
        /\ hist[i].layout.participants[2].width = 100
        /\ hist[i].layout.participants[3].x = 40 + 160 + 60 + 100 + 60 + 55

\* C12: the first message is at y = startY + 90, where startY is 40 plus 40
\* when a non-empty title is present; each later message is 50 below the one
\* before it, 80 when the one before it is a self-message.
C12_MessagesTopToBottom ==
    \A i \in SequenceLayouts :
        \A m \in {hist[i].layout.messages} :
            /\ Len(m) = Len(hist[i].in.messages)
            /\ Len(m) > 0 =>
                m[1].y = 40 + 90 + (IF hist[i].in.title \in {None, Some(<<>>)}
                                    THEN 0 ELSE 40)
            /\ \A k \in 1..(Len(m) - 1) :
                /\ m[k].y < m[k + 1].y
                /\ m[k + 1].y - m[k].y =
                      IF hist[i].in.messages[k].from = hist[i].in.messages[k].to
                      THEN 80 ELSE 50

\* a titled diagram whose self-message is followed by another message, and
\* one with an empty title that has a message
C12_Witness ==
    \E i \in SequenceLayouts :
        /\ hist[i].in.title = Some(W_Title)
        /\ Len(hist[i].layout.messages) = 3
        /\ hist[i].layout.messages[1].isSelfMessage
        /\ hist[i].layout.messages[2].y = 80 + 90 + 80
        /\ hist[i].layout.messages[3].y = 80 + 90 + 80 + 50

(***************************************************************************)
(* Flow layout: what layoutFlowDiagram returns for a definition and an     *)
(* answer of the layout service.                                           *)
(***************************************************************************)
FlowLayouts == {i \in 1..Len(hist) : hist[i].kind = "flowLayout"}

\* C13: the result of layoutFlowDiagram has one LayoutNode per input node,
\* one LayoutEdge per input edge and one LayoutGroup per input group, each at
\* the index of its input and with its id (from and to for an edge), whatever
\* the service answered, also with edge ends that no node has and with groups
\* that name unknown ids.
C13_CardinalityAndOrder ==
    \A i \in FlowLayouts :
        \A d \in {hist[i].in.diagram} : \A l \in {hist[i].layout} :
            /\ Len(l.nodes) = Len(d.nodes)
            /\ \A n \in 1..Len(d.nodes) : l.nodes[n].id = d.nodes[n].id
            /\ Len(l.edges) = Len(d.edges)
            /\ \A e \in 1..Len(d.edges) :
                  l.edges[e].from = d.edges[e].from /\ l.edges[e].to = d.edges[e].to
            /\ Len(l.groups) = Len(d.groups)
            /\ \A g \in 1..Len(d.groups) : l.groups[g].id = d.groups[g].id

\* a definition with an edge to an id that no node has, which the service
\* left without a route, and a group that names an unknown id
C13_Witness ==
    \E i \in FlowLayouts :
        /\ Len(hist[i].layout.nodes) = 2
        /\ Len(hist[i].layout.edges) = 1
        /\ hist[i].layout.edges[1].to = W_z
        /\ Len(hist[i].layout.edges[1].points) < 2
        /\ Len(hist[i].layout.groups) = 2
        /\ hist[i].in.diagram.groups[2].contains = <<W_z>>

\* the route the service returned for edge e of entry i, as pairs; <<>> when
\* it returned none
ServiceRoute(i, e) ==
    extractRoutePoints(hist[i].in.result.edges[e].sections)

\* the ends of edge e of entry i that the answer of the service holds as
\* nodes without children, source first
PositionedEnds(i, e) ==
    SelectSeq(<<hist[i].in.diagram.edges[e].from, hist[i].in.diagram.edges[e].to>>,
              LAMBDA id : getById(collectNodePositions(hist[i].in.result), id) # <<>>)

\* the centre, padding added, of the layout node with the given id
CentreOf(layout, id) ==
    LET n == getById(layout.nodes, id)[1]
    IN  <<n.x + (n.width \div 2), n.y + (n.height \div 2)>>

ServicePositive(result) ==
    /\ OrElse(result.width, 0) > 0 /\ OrElse(result.height, 0) > 0
    /\ \A c \in 1..Len(result.children) :
          /\ OrElse(result.children[c].width, 0) > 0
          /\ OrElse(result.children[c].height, 0) > 0
          /\ \A k \in 1..Len(result.children[c].children) :
                /\ OrElse(result.children[c].children[k].width, 0) > 0
                /\ OrElse(result.children[c].children[k].height, 0) > 0

\* C15 as stated: when the service returns a positive width and height for
\* every node of the tree it is given, every LayoutGroup that
\* layoutFlowDiagram returns, for every input group, has width > 0 and
\* height > 0.
C15_GroupsHaveExtent ==
    \A i \in FlowLayouts :
        ServicePositive(hist[i].in.result) =>
            \A g \in 1..Len(hist[i].layout.groups) :
                hist[i].layout.groups[g].width > 0 /\ hist[i].layout.groups[g].height > 0

\* the service placed every child inside the box of its container, in the
\* coordinates of the container
ServiceEncloses(result) ==
    \A c \in 1..Len(result.children) :
        \A box \in {result.children[c]} :
            \A k \in 1..Len(box.children) :
                \A child \in {box.children[k]} :
                    /\ 0 <= child.x[1] /\ 0 <= child.y[1]
                    /\ child.x[1] + child.width[1] <= box.width[1]
                    /\ child.y[1] + child.height[1] <= box.height[1]

\* the nodes of layout that layoutFlowDiagram assigns to the group with the
\* given id: the node-to-group map of the definition gives them that id and
\* the id is truthy (`groupId && groupElkNodes.has(groupId)`)
AssignedTo(diagram, id) ==
    {n \in 1..Len(diagram.nodes) :
        /\ id # <<>>
        /\ buildNodeToGroupMap(diagram.groups, diagram.nodes[n].id) = Some(id)}

Arrowheads(svg) == SelectSeq(svg, LAMBDA el : el.tag = "polygon")

Abs(x) == IF x < 0 THEN -x ELSE x

\* polygon p is an arrowhead with its tip at point tip (moved by no more than
\* the jitter of the theme) and its two other corners on the side of point
\* from; coordinates of the polygon are in tenths
ArrowAt(p, tip, from, config) ==
    /\ Abs(p.nums[1] - 10 * tip[1]) <= (3 * config.jitterAmount) \div 10
    /\ Abs(p.nums[2] - 10 * tip[2]) <= (3 * config.jitterAmount) \div 10
    /\ config.jitterAmount = 0 => p.nums[1] = 10 * tip[1] /\ p.nums[2] = 10 * tip[2]
    /\ from # tip =>
          \A c \in {3, 5} :
              (p.nums[c] - 10 * tip[1]) * (from[1] - tip[1])
                + (p.nums[c + 1] - 10 * tip[2]) * (from[2] - tip[2]) > 0

\* C17: for a flow edge with at least 2 points renderEdge emits, for
\* direction forward, exactly one arrowhead, its tip at the last point and
\* its base toward the last but one; for backward exactly one, its tip at the
\* first point and its base toward the second; for both exactly these two;
\* for none no arrowhead.
C17_ArrowheadsByDirection ==
    \A i \in 1..Len(hist) :
        (hist[i].kind = "flow" /\ Len(hist[i].layout.edges) = 1
            /\ Len(hist[i].layout.edges[1].points) >= 2) =>
        \A pts \in {hist[i].layout.edges[1].points} :
        \A heads \in {Arrowheads(hist[i].svg)} :
        \A config \in {getThemeConfig(hist[i].in.theme)} :
            CASE hist[i].layout.edges[1].direction = "forward" ->
                    /\ Len(heads) = 1
                    /\ ArrowAt(heads[1], pts[Len(pts)], pts[Len(pts) - 1], config)
              [] hist[i].layout.edges[1].direction = "backward" ->
                    /\ Len(heads) = 1
                    /\ ArrowAt(heads[1], pts[1], pts[2], config)
              [] hist[i].layout.edges[1].direction = "both" ->
                    /\ Len(heads) = 2
                    /\ ArrowAt(heads[1], pts[Len(pts)], pts[Len(pts) - 1], config)
                    /\ ArrowAt(heads[2], pts[1], pts[2], config)
              [] OTHER -> Len(heads) = 0

\* an edge of three points with direction both, drawn hand-drawn with its
\* two arrowheads
C17_Witness ==
    \E i \in 1..Len(hist) :
        /\ hist[i].kind = "flow" /\ hist[i].in.theme = "hand-drawn"
        /\ Len(hist[i].layout.edges) = 1
        /\ hist[i].layout.edges[1].direction = "both"
        /\ Len(hist[i].layout.edges[1].points) = 3
        /\ Len(Arrowheads(hist[i].svg)) = 2

(***************************************************************************)
(* The title and the frame of the document.                                *)
(***************************************************************************)
\* a title element: the bold text of font size 18
IsTitle(el) ==
    el.tag = "text" /\ el.sty = <<18>>
        /\ \E a \in 1..Len(el.attrs) : el.attrs[a] = "font-weight=bold"

IsTranslate(el) ==
    el.tag = "g" /\ \E a \in 1..Len(el.attrs) : el.attrs[a] = "transform=translate"

\* the index of the first element after the title at index 3 and its lines
RECURSIVE AfterTitle(_, _)
AfterTitle(svg, k) ==
    IF k <= Len(svg) /\ svg[k].tag = "tspan" THEN AfterTitle(svg, k + 1) ELSE k

\* the groups opened minus the groups closed among elements from..to
Depth(svg, from, to) ==
    Cardinality({k \in from..to : svg[k].tag = "g"})
        - Cardinality({k \in from..to : svg[k].tag = "/g"})

\* C18: in both renders, with a non-empty title the title text is the first
\* element after the background, all the rest of the content is inside one
\* group translated by (0, 40), the only one, and the height of the document
\* is the height of the layout + 40; with no title or an empty one there is
\* no title element and no translated group and the height is that of the
\* layout.  The width is always that of the layout.
C18_TitleAndFrame ==
    \A i \in 1..Len(hist) : hist[i].kind \in {"flow", "sequence"} =>
        \A svg \in {hist[i].svg} : \A n \in {Len(hist[i].svg)} :
            /\ svg[1].tag = "svg" /\ svg[n].tag = "/svg"
            /\ svg[1].nums[1] = 10 * hist[i].layout.width
            /\ svg[2] = Background(hist[i].layout.width, svg[1].nums[2] \div 10)
            /\ IF hist[i].in.title \notin {None, Some(<<>>)}
               THEN /\ svg[1].nums[2] = 10 * (hist[i].layout.height + 40)
                    /\ IsTitle(svg[3])
                    /\ {k \in 1..n : IsTitle(svg[k])} = {3}
                    /\ \A k \in {AfterTitle(svg, 4)} :
                          /\ IsTranslate(svg[k]) /\ svg[k].nums = <<0, 400>>
                          /\ {j \in 1..n : IsTranslate(svg[j])} = {k}
                          /\ svg[n - 1].tag = "/g"
                          /\ \A j \in (k + 1)..(n - 2) : Depth(svg, k + 1, j) >= 0
                          /\ Depth(svg, k + 1, n - 2) = 0
               ELSE /\ svg[1].nums[2] = 10 * hist[i].layout.height
                    /\ \A k \in 1..n : ~IsTitle(svg[k]) /\ ~IsTranslate(svg[k])

\* a sequence diagram with a message rendered under a title long enough to
\* be wrapped: the title and its lines, then the translated group
C18_Witness ==
    \E i \in 1..Len(hist) :
        /\ hist[i].kind = "sequence" /\ hist[i].in.title = Some(W_LongTitle)
        /\ Len(hist[i].layout.messages) > 0
        /\ IsTitle(hist[i].svg[3])
        /\ hist[i].svg[4].tag = "tspan"
        /\ \E k \in 5..Len(hist[i].svg) : IsTranslate(hist[i].svg[k])

(***************************************************************************)
(* The MCP server: failed tool calls and the diagram store.                *)
(***************************************************************************)
\* tool call c returns in this step
ReturnsNow(c) ==
    /\ c \in 1..Len(toolCalls') /\ toolCalls'[c].pc = "done"
    /\ c > Len(toolCalls) \/ toolCalls[c].pc # "done"

\* the call is one of those that must fail: update_diagram or export_diagram
\* for an id that is not in the store, export_diagram for a stored diagram
\* without SVG
MustFail(call) ==
    /\ call.tool \in {"update_diagram", "export_diagram"}
    /\ \/ getById(diagrams, call.diagram_id) = <<>>
       \/ /\ call.tool = "export_diagram"
          /\ getById(diagrams, call.diagram_id)[1].svg = <<>>

C19_Step ==
    \A c \in 1..Len(toolCalls') :
        (ReturnsNow(c) /\ MustFail(toolCalls'[c])) =>
            /\ toolCalls'[c].isError
            /\ diagrams' = diagrams
            /\ previewServers' = previewServers
            /\ servers' = servers
            /\ fileSystem' = fileSystem

\* C19: update_diagram or export_diagram with an unknown diagram id, and
\* export_diagram for a stored diagram whose SVG is not yet available,
\* return an error result and leave the diagram store (syntax, svg and
\* filePath of every entry), the preview servers and the file system as
\* they were.
C19_FailedCallChangesNothing == [][C19_Step]_vars

\* a diagram is stored with its preview server running; an export of it
\* failed for want of its SVG and an update of an unknown id failed
C19_Witness ==
    /\ Len(diagrams) = 1 /\ Len(previewServers) = 1
    /\ \E c \in 1..Len(toolCalls) :
          /\ toolCalls[c].tool = "export_diagram" /\ toolCalls[c].isError
          /\ toolCalls[c].text = "SVG not yet available"
    /\ \E c \in 1..Len(toolCalls) :
          /\ toolCalls[c].tool = "update_diagram" /\ toolCalls[c].isError
          /\ toolCalls[c].text = "Diagram not found"

\* the calls of generate_mermaid among the first n tool calls
Generated(n) == {c \in 1..n : toolCalls[c].tool = "generate_mermaid"}

C20_Store ==
    /\ Len(diagrams) = Cardinality(Generated(Len(toolCalls)))
    /\ \A k \in 1..Len(diagrams) :
          /\ diagrams[k].id = <<"d", "i", "a", "g", "r", "a", "m", "_">> \o Dec(k)
          /\ \A j \in 1..Len(diagrams) : j # k => diagrams[j].id # diagrams[k].id
          /\ \E c \in Generated(Len(toolCalls)) :
                /\ toolCalls[c].diagram_id = diagrams[k].id
                /\ Cardinality(Generated(c)) = k
    /\ \A c \in 1..Len(toolCalls) :
          toolCalls[c].tool = "list_diagrams" =>
              /\ Len(toolCalls[c].lines) = Cardinality(Generated(c))
              /\ \A k \in 1..Len(toolCalls[c].lines) :
                    toolCalls[c].lines[k].id = diagrams[k].id

C20_Step ==
    /\ Len(diagrams') >= Len(diagrams)
    /\ \A k \in 1..Len(diagrams) : diagrams'[k].id = diagrams[k].id

\* C20: the store holds exactly one entry per generate_mermaid call made so
\* far, also when the preview server failed to start; the ids are diagram_1,
\* diagram_2, ... in call order and pairwise distinct; list_diagrams lists
\* them all; no step removes an entry or gives it another key.
C20_OneEntryPerGenerate == [](C20_Store) /\ [][C20_Step]_vars

\* two diagrams generated, the preview server of the first failed to start,
\* then listed
C20_Witness ==
    /\ Len(toolCalls) = 3 /\ Len(diagrams) = 2
    /\ toolCalls[1].tool = "generate_mermaid" /\ toolCalls[1].pc = "done"
    /\ toolCalls[1].preview = None
    /\ toolCalls[2].tool = "generate_mermaid"
    /\ toolCalls[3].tool = "list_diagrams" /\ Len(toolCalls[3].lines) = 2

(***************************************************************************)
(* layoutFlowDiagram: absolute coordinates and the partition of the nodes. *)
(***************************************************************************)
FlowExtracts == {i \in 1..Len(hist) : hist[i].kind \in {"flowLayout", "flowExtract"}}

\* the node of an answer at a path of child indexes from the root
RECURSIVE NodeAt(_, _)
NodeAt(tree, path) ==
    IF path = <<>> THEN tree ELSE NodeAt(tree.children[Head(path)], Tail(path))

\* the paths of an answer, from the root to every node below it
RECURSIVE PathsOf(_)
PathsOf(tree) ==
    UNION {{<<i>>} \cup {<<i>> \o p : p \in PathsOf(tree.children[i])} :
              i \in 1..Len(tree.children)}

\* the sum of the relative x (y) of the nodes along a path, the last included
RECURSIVE SumAlong(_, _)
SumAlong(tree, path) ==
    IF path = <<>> THEN <<0, 0>>
    ELSE LET child == tree.children[Head(path)]
             rest == SumAlong(child, Tail(path))
         IN  <<OrElse(child.x, 0) + rest[1], OrElse(child.y, 0) + rest[2]>>

LeafPaths(tree) == {p \in PathsOf(tree) : NodeAt(tree, p).children = <<>>}

\* C22: a node without children that the answer of the layout service holds
\* at any depth (its id on no other such node) is returned at the sum of the
\* relative x (y) of the nodes on its path, itself included, plus PADDING
\* once; the points of an edge that lies on a node of the answer (its id on
\* no other edge) are returned offset by the sum along the path of that node,
\* plus PADDING once; the returned width and height are those of the root of
\* the answer plus 2 * PADDING.
C22_AbsoluteThenPadded ==
    \A i \in FlowExtracts :
    \A result \in {hist[i].in.result}, diagram \in {hist[i].in.diagram} :
    \A layout \in {hist[i].layout} :
        /\ layout.width = OrElse(result.width, 0) + 2 * FLOW_PADDING
        /\ layout.height = OrElse(result.height, 0) + 2 * FLOW_PADDING
        /\ \A p \in LeafPaths(result) :
              (\A q \in LeafPaths(result) :
                    NodeAt(result, q).id = NodeAt(result, p).id => q = p)
              => \A n \in 1..Len(diagram.nodes) :
                    diagram.nodes[n].id = NodeAt(result, p).id =>
                        /\ layout.nodes[n].x = SumAlong(result, p)[1] + FLOW_PADDING
                        /\ layout.nodes[n].y = SumAlong(result, p)[2] + FLOW_PADDING
        /\ \A p \in PathsOf(result) \cup {<<>>} :
           \A holder \in {NodeAt(result, p)} :
           \A e \in 1..Len(holder.edges) :
              (/\ \A q \in PathsOf(result) \cup {<<>>} :
                  \A f \in 1..Len(NodeAt(result, q).edges) :
                      NodeAt(result, q).edges[f].id = holder.edges[e].id
                          => (q = p /\ f = e)
               /\ holder.edges[e].sections # <<>>)
              => \A k \in 1..Len(diagram.edges) :
                    edgeId(diagram.edges[k], k - 1) = holder.edges[e].id =>
                        layout.edges[k].points =
                            [j \in 1..Len(extractRoutePoints(holder.edges[e].sections)) |->
                                <<extractRoutePoints(holder.edges[e].sections)[j].x
                                      + SumAlong(result, p)[1] + FLOW_PADDING,
                                  extractRoutePoints(holder.edges[e].sections)[j].y
                                      + SumAlong(result, p)[2] + FLOW_PADDING>>]

\* node a inside g2 at (5, 9) inside g1 at (10, 7), itself at (3, 4), comes
\* back at (58, 60); the edge on g2 starts at (63 + 15 + 40, 64 + 16 + 40)
C22_Witness ==
    \E i \in 1..Len(hist) :
        /\ hist[i].kind = "flowExtract"
        /\ hist[i].in.result = NestedResult(3, 10, 7, 5, 9)
        /\ hist[i].layout.nodes[1].x = 58 /\ hist[i].layout.nodes[1].y = 60
        /\ hist[i].layout.edges[1].points[1] = <<118, 120>>
        /\ hist[i].layout.width = 680 /\ hist[i].layout.height = 480

\* the places of an id in the graph built for a definition: 0 for a child of
\* the root that is a node (it has a size), the id of the compound node for
\* a child of a compound node
PlacesOf(graph, id) ==
    [root |-> {i \in 1..Len(graph.children) :
                  graph.children[i].id = id /\ graph.children[i].width # None},
     inner |-> UNION {{<<i, k>> : k \in {j \in 1..Len(graph.children[i].children) :
                                        graph.children[i].children[j].id = id}} :
                      i \in 1..Len(graph.children)}]

\* the groups, in order, whose contains lists the id
ListedBy(groups, id) ==
    {g \in 1..Len(groups) : \E k \in 1..Len(groups[g].contains) :
                                groups[g].contains[k] = id}

\* the partition for the definitions whose groups all have a name
PartitionHolds(diagram) ==
    \A graph \in {buildRootGraph(diagram)} :
    \A n \in 1..Len(diagram.nodes) :
    \A id \in {diagram.nodes[n].id} :
    \A places \in {PlacesOf(graph, id)}, listed \in {ListedBy(diagram.groups, id)} :
        /\ Cardinality(places.root) + Cardinality(places.inner)
              = Cardinality({m \in 1..Len(diagram.nodes) : diagram.nodes[m].id = id})
        /\ listed = {} => places.inner = {}
        /\ listed # {} =>
              /\ places.root = {}
              /\ \A ik \in places.inner :
                    graph.children[ik[1]].id =
                        diagram.groups[CHOOSE g \in listed : \A h \in listed : h <= g].id

\* C23: in the graph that layoutFlowDiagram hands to the layout service every
\* input node appears exactly once (as often as its id is given); under the
\* compound node of the last group, in groups order, whose contains lists its
\* id, and at the root only when no group lists it.
C23_NodePartition ==
    \A i \in 1..Len(hist) :
        hist[i].kind = "flowLayout" => PartitionHolds(hist[i].in.diagram)

\* the same for the definitions in which every group id is not empty
NamedGroupsPartition ==
    \A i \in 1..Len(hist) :
        (/\ hist[i].kind = "flowLayout"
         /\ \A g \in 1..Len(hist[i].in.diagram.groups) :
               hist[i].in.diagram.groups[g].id # <<>>)
        => PartitionHolds(hist[i].in.diagram)

(***************************************************************************)
(* layoutSequenceDiagram: the lifelines and the height.                    *)
(***************************************************************************)
\* max(lastMsgY + selfAdjustment, startY + 40) + 40; without messages there
\* is no lastMsgY and the maximum is startY + 40
LifelineBottom(layout, startY) ==
    IF Len(layout.messages) = 0 THEN startY + 40 + 40
    ELSE Max(layout.messages[Len(layout.messages)].y
                + (IF layout.messages[Len(layout.messages)].isSelfMessage
                   THEN 30 ELSE 0),
             startY + 40) + 40

\* C24: for every sequence diagram, one without messages included, bottomY
\* of every participant is max(lastMsgY + selfAdjustment, startY + 40) + 40,
\* selfAdjustment being 30 when the last message is a self-message and 0
\* otherwise, startY being 80 with a title and 40 without; the height is
\* that bottom + 40.
C24_LifelineBottom ==
    \A i \in SequenceLayouts :
    \A layout \in {hist[i].layout} :
    \A startY \in {IF Truthy(hist[i].in.title) THEN 80 ELSE 40} :
        /\ layout.height = LifelineBottom(layout, startY) + 40
        /\ \A p \in 1..Len(layout.participants) :
              /\ layout.participants[p].topY = startY
              /\ layout.participants[p].bottomY = LifelineBottom(layout, startY)

\* a titled diagram of two participants whose last message of two is a
\* self-message: messages at 170 and 220, lifelines down to 290, height 330
C24_Witness ==
    \E i \in SequenceLayouts :
        /\ Truthy(hist[i].in.title)
        /\ Len(hist[i].layout.participants) = 2
        /\ Len(hist[i].layout.messages) = 2
        /\ ~hist[i].layout.messages[1].isSelfMessage
        /\ hist[i].layout.messages[2].isSelfMessage
        /\ hist[i].layout.messages[2].y = 220
        /\ hist[i].layout.participants[1].bottomY = 290
        /\ hist[i].layout.height = 330

(***************************************************************************)
(* The RNG: range of the state and of the outputs.                         *)
(***************************************************************************)
\* C25: from the reset state 42 and after any number of draws the state of
\* the generator is within 1..2147483646, so it is never 0 and the next
\* draw moves it; every output (s - 1) / 2147483646 is at least 0 and less
\* than 1.
C25_RngRange ==
    /\ seed \in 1..2147483646
    /\ pseudoRandom(seed) # seed
    /\ \A i \in 1..Len(hist) :
          hist[i].kind = "draws" =>
              /\ hist[i].layout = seed - 1
              /\ 0 <= hist[i].layout /\ hist[i].layout < 2147483646

\* two draws made: 42 * 16807 = 705894, then 705894 * 16807 mod 2147483647
C25_Witness ==
    /\ hist # <<>> /\ hist[1].kind = "draws" /\ hist[1].in = 2
    /\ seed = 1126542223

(***************************************************************************)
(* Render order.                                                           *)
(***************************************************************************)
HasAttr(el, a) == \E k \in 1..Len(el.attrs) : el.attrs[k] = a

IsOpener(el) ==
    el.tag = "g" /\ (HasAttr(el, "class=group") \/ HasAttr(el, "class=edge")
                        \/ HasAttr(el, "class=node"))

\* the groups opened for groups, edges and nodes, in the order of the output
OpenersOf(svg) ==
    Bind(SelectSeq(svg, IsOpener), LAMBDA os :
        [k \in 1..Len(os) |-> <<os[k].attrs[1], os[k].strs>>])

IsDrawable(edge) == Len(edge.points) >= 2

ExpectedOpeners(layout) ==
    [k \in 1..Len(layout.groups) |->
        <<"class=group", <<escapeXml(layout.groups[k].id)>> >>] \o
    Bind(SelectSeq(layout.edges, IsDrawable), LAMBDA es :
        [k \in 1..Len(es) |->
            <<"class=edge", <<escapeXml(es[k].from), escapeXml(es[k].to)>> >>]) \o
    [k \in 1..Len(layout.nodes) |->
        <<"class=node", <<escapeXml(layout.nodes[k].id)>> >>]

\* a without its closing elements (that of the document and, under a title,
\* that of the translated group) is the beginning of b
BeginsWith(b, a) ==
    /\ Len(a) <= Len(b)
    /\ \A k \in 1..Len(a) : a[k].tag \notin {"/g", "/svg"} \/ k < Len(a) - 1
                               => a[k] = b[k]

IsLifelinePart(el) == el.tag \in {"line", "path"} /\ el.strs = <<C_999>>
IsMessageOpener(el) == el.tag = "g" /\ HasAttr(el, "class=message")
IsBoxLabel(el) == el.tag = "text" /\ el.sty = <<PARTICIPANT_FONT>>

Positions(svg, Test(_)) == {k \in 1..Len(svg) : Test(svg[k])}

BoxLabelsOf(svg) ==
    Bind(SelectSeq(svg, IsBoxLabel), LAMBDA ls : [k \in 1..Len(ls) |-> ls[k].nums])

ExpectedBoxLabels(participants) ==
    [k \in 1..Len(participants) |->
        <<participants[k].x * 10, (participants[k].topY + 20) * 10>>] \o
    [k \in 1..Len(participants) |->
        <<participants[k].x * 10, (participants[k].bottomY + 20) * 10>>]

BothEndsKnown(participants, msg) ==
    /\ \E k \in 1..Len(participants) : participants[k].id = msg.from
    /\ \E k \in 1..Len(participants) : participants[k].id = msg.to

\* the index of the closing element of the last message group
LastMessageEnd(svg) ==
    IF Positions(svg, IsMessageOpener) = {} THEN 0
    ELSE Bind(CHOOSE m \in Positions(svg, IsMessageOpener) :
                  \A k \in Positions(svg, IsMessageOpener) : k <= m, LAMBDA m :
             CHOOSE e \in m..Len(svg) :
                 /\ Depth(svg, m, e) = 0
                 /\ \A k \in m..(e - 1) : Depth(svg, m, k) > 0)

\* C26: a flow render emits the groups in input order, then the edges that
\* have at least two points in input order, then the nodes in input order,
\* and draws its random numbers in that order (the output of the render
\* without the nodes, and of the one with the groups only, is the beginning
\* of the output).  A sequence render emits the lifelines, then the messages
\* whose ends are participants, then the boxes at the top in input order,
\* then the boxes at the bottom in input order; nothing of a later class
\* precedes anything of an earlier class, and the lifelines are drawn as
\* with no message at all.
C26_RenderOrder ==
    \A i \in 1..Len(hist) :
        /\ hist[i].kind = "flow" =>
              \A layout \in {hist[i].layout} :
                 /\ OpenersOf(hist[i].svg) = ExpectedOpeners(layout)
                 /\ BeginsWith(hist[i].svg,
                               renderFlowDiagram([layout EXCEPT !.nodes = <<>>],
                                                 hist[i].in.theme, hist[i].in.title,
                                                 SEED0).svg)
                 /\ BeginsWith(hist[i].svg,
                               renderFlowDiagram([layout EXCEPT !.nodes = <<>>,
                                                                 !.edges = <<>>],
                                                 hist[i].in.theme, hist[i].in.title,
                                                 SEED0).svg)
        /\ hist[i].kind = "sequence" =>
              \A svg \in {hist[i].svg} : \A layout \in {hist[i].layout} :
              \A lines \in {Positions(svg, IsLifelinePart)} :
              \A opens \in {Positions(svg, IsMessageOpener)} :
              \A labels \in {Positions(svg, IsBoxLabel)} :
              \A last \in {LastMessageEnd(svg)} :
                 /\ lines # {}
                 /\ \A l \in lines : \A m \in opens : l < m
                 /\ \A l \in lines : \A b \in labels : l < b
                 /\ \A b \in labels : last + 1 < b
                 /\ \A k \in 1..Len(svg) :
                       (\E l \in lines : l < k) /\ (\E m \in opens : \A o \in opens : k < o)
                           => IsLifelinePart(svg[k])
                 /\ Cardinality(opens) =
                        Len(SelectSeq(layout.messages,
                                      LAMBDA msg : BothEndsKnown(layout.participants, msg)))
                 /\ BoxLabelsOf(svg) = ExpectedBoxLabels(layout.participants)
                 /\ \A l \in lines :
                       svg[l] = renderSequenceDiagram([layout EXCEPT !.messages = <<>>],
                                                      hist[i].in.theme, hist[i].in.title,
                                                      SEED0).svg[l]

\* a hand-drawn flow render of two groups, a drawn and an undrawn edge and
\* two nodes
C26_Witness ==
    /\ Len(hist) = 1
    /\ hist[1].kind = "flow"
    /\ hist[1].in.theme = "hand-drawn"
    /\ Len(hist[1].layout.groups) = 2 /\ Len(hist[1].layout.nodes) = 2
    /\ Len(hist[1].layout.edges) = 2
    /\ Len(OpenersOf(hist[1].svg)) = 5
    /\ hist[1].drawn # SEED0

\* a hand-drawn sequence render of two participants with a drawn and an
\* undrawn message
SequenceOrderCase ==
    /\ Len(hist) = 1
    /\ hist[1].kind = "sequence"
    /\ hist[1].in.theme = "hand-drawn"
    /\ Len(hist[1].layout.participants) = 2
    /\ Len(hist[1].layout.messages) = 2
    /\ Cardinality(Positions(hist[1].svg, IsMessageOpener)) = 1

\* C28: a render in the clean or the minimal theme draws no pseudo-random
\* number: whatever the shapes, edge directions, groups, messages and
\* self-messages of the layout, the seed is 42 when the render returns.
C28_PlainThemesDrawNothing ==
    \A i \in 1..Len(hist) :
        hist[i].kind \in {"flow", "sequence"} /\ hist[i].in.theme \in {"clean", "minimal"}
            => hist[i].drawn = SEED0 /\ seed = SEED0

\* a clean or minimal render of two messages, one of them a self-message
C28_Witness ==
    /\ Len(hist) = 1
    /\ hist[1].in.theme \in {"clean", "minimal"}
    /\ hist[1].kind = "sequence"
    /\ \E k \in 1..Len(hist[1].layout.messages) :
          /\ hist[1].layout.messages[k].isSelfMessage
          /\ BothEndsKnown(hist[1].layout.participants, hist[1].layout.messages[k])
    /\ Cardinality(Positions(hist[1].svg, IsMessageOpener)) = 2

\* the same for a cloud, whose second stroke is the one place where the
\* amount of jitter is not taken from the theme
PlainCloudCase ==
    /\ Len(hist) = 1
    /\ hist[1].kind = "flow"
    /\ hist[1].in.theme = "minimal"
    /\ Len(hist[1].layout.nodes) = 1
    /\ hist[1].layout.nodes[1].shape = "cloud"

PlainBothArrowsCase ==
    /\ Len(hist) = 1
    /\ hist[1].kind = "flow"
    /\ hist[1].in.theme = "clean"
    /\ Len(hist[1].layout.edges) = 1
    /\ hist[1].layout.edges[1].direction = "both"
    /\ Len(hist[1].layout.edges[1].points) >= 2

(***************************************************************************)
(* Messages whose ends are not participants.                               *)
(***************************************************************************)
IsDangling(participants, msg) == ~BothEndsKnown(participants, msg)

\* C29: a message whose from or to is not the id of a participant is laid
\* out like any other (the layout has one message for each message of the
\* definition, in order, the first at the first message row and each next
\* one 50 lower, 80 after a message from a participant to itself), and
\* the render is the render of the layout without these messages: the same
\* elements and the same random numbers drawn, one message group for each
\* message whose two ends are participants.
C29_DanglingMessage ==
    \A i \in 1..Len(hist) :
        hist[i].kind = "sequence" /\ "def" \in DOMAIN hist[i].in =>
            \A def \in {hist[i].in.def} : \A layout \in {hist[i].layout} :
            \A known \in {SelectSeq(hist[i].layout.messages,
                                    LAMBDA msg : BothEndsKnown(hist[i].layout.participants,
                                                               msg))} :
                /\ Len(layout.messages) = Len(def.messages)
                /\ \A k \in 1..Len(def.messages) :
                      /\ layout.messages[k].from = def.messages[k].from
                      /\ layout.messages[k].to = def.messages[k].to
                      /\ layout.messages[k].y =
                            IF k = 1
                            THEN layout.participants[1].topY + PARTICIPANT_BOX_HEIGHT
                                    + MESSAGE_SPACING
                            ELSE layout.messages[k - 1].y
                                    + (IF def.messages[k - 1].from = def.messages[k - 1].to
                                       THEN 80 ELSE 50)
                /\ Cardinality(Positions(hist[i].svg, IsMessageOpener)) = Len(known)
                /\ \A r \in {renderSequenceDiagram([layout EXCEPT !.messages = known],
                                                   hist[i].in.theme, hist[i].in.title,
                                                   SEED0)} :
                      r.svg = hist[i].svg /\ r.s = hist[i].drawn

\* a hand-drawn render of a message to an unknown participant followed by a
\* message between participants
C29_Witness ==
    /\ Len(hist) = 1
    /\ hist[1].kind = "sequence" /\ "def" \in DOMAIN hist[1].in
    /\ hist[1].in.theme = "hand-drawn"
    /\ Len(hist[1].layout.messages) = 2
    /\ IsDangling(hist[1].layout.participants, hist[1].layout.messages[1])
    /\ ~IsDangling(hist[1].layout.participants, hist[1].layout.messages[2])
    /\ hist[1].layout.messages[2].y = hist[1].layout.messages[1].y + 50
    /\ Cardinality(Positions(hist[1].svg, IsMessageOpener)) = 1

\* the same with a message from an unknown participant to itself
DanglingSelfCase ==
    /\ Len(hist) = 1
    /\ hist[1].kind = "sequence" /\ "def" \in DOMAIN hist[1].in
    /\ Len(hist[1].layout.messages) = 2
    /\ hist[1].layout.messages[1].from = W_c /\ hist[1].layout.messages[1].to = W_c
    /\ hist[1].layout.messages[2].y = hist[1].layout.messages[1].y + 80
    /\ Cardinality(Positions(hist[1].svg, IsMessageOpener)) = 1

(***************************************************************************)
(* The MCP server and its browsers.                                        *)
(***************************************************************************)
\* C27: in the MCP server the svg of a stored diagram, when it is not empty,
\* is the rendering of the syntax that the diagram has now, whatever the
\* interleaving of update_diagram calls with the svg-result messages of the
\* browser, so that export_diagram never writes the rendering of an older
\* syntax.
C27_StoredSvgIsCurrent ==
    \A k \in 1..Len(diagrams) :
        diagrams[k].svg # <<>> => diagrams[k].svg = MermaidSvg(diagrams[k].syntax)

\* export_diagram has written, for a diagram whose syntax is SyntaxB, the
\* rendering of SyntaxA
StaleSvgExported ==
    \E k \in 1..Len(diagrams) : \E f \in 1..Len(fileSystem.files) :
        /\ diagrams[k].filePath = Some(fileSystem.files[f].id)
        /\ diagrams[k].syntax = SyntaxB
        /\ fileSystem.files[f].data = MermaidSvg(SyntaxA)
        /\ toolCalls[Len(toolCalls)].tool = "export_diagram"
        /\ ~toolCalls[Len(toolCalls)].isError

\* C30: in the MCP server at most one preview server is ever started for a
\* diagram id, every preview server that listens is the server of an entry
\* of previewServers, and after the shutdown no preview server listens,
\* whatever the interleaving of the tool calls.
C30_OneServerPerId ==
    /\ \A i, j \in 1..Len(servers) : servers[i].id = servers[j].id => i = j
    /\ running =>
          \A sv \in 1..Len(servers) :
              servers[sv].listening =>
                  \E k \in 1..Len(previewServers) : previewServers[k].server = sv
    /\ ~running => \A sv \in 1..Len(servers) : ~servers[sv].listening

\* a preview server still listens after the shutdown
ServerLeftListening ==
    ~running /\ \E sv \in 1..Len(servers) : servers[sv].listening

(***************************************************************************)
(* What a preview server sends to its clients.                             *)
(***************************************************************************)
\* the last message of a type among the messages sent, if any
LastMessage(sent, type) ==
    IF \E k \in 1..Len(sent) : sent[k].type = type
    THEN <<sent[CHOOSE k \in 1..Len(sent) :
                   sent[k].type = type /\ \A j \in (k + 1)..Len(sent) : sent[j].type # type]>>
    ELSE <<>>

\* the last content sent to every open client is the content of the server
\* (none when the server has none), the same for the title; the first
\* message sent to a client is a title
C21_Inv ==
    \A sv \in 1..Len(servers) : \A cl \in 1..Len(servers[sv].clients) :
    \A ws \in {servers[sv].clients[cl]} :
        /\ ws.sent # <<>> /\ ws.sent[1].type = "title"
        /\ ws.readyState = 1 =>
              /\ LastMessage(ws.sent, "mermaid") = servers[sv].content
              /\ LastMessage(ws.sent, "title") = <<TitleMessage(servers[sv].title)>>

\* the tool call that has pushed its syntax to a preview server in this step
Pushed(c) ==
    /\ c \in 1..Len(toolCalls') /\ toolCalls'[c].pc = "done"
    /\ c \in 1..Len(toolCalls) => toolCalls[c].pc # "done"
    /\ toolCalls'[c].preview # None

\* the messages that updateMermaid(id, syntax, title) sends to an open client
UpdateMessages(call) ==
    (IF Truthy(call.title) THEN <<TitleMessage(call.title[1])>> ELSE <<>>) \o
    <<MermaidMessage(call.diagram_id, call.syntax)>>

C21_Step ==
    \A sv \in 1..Len(servers) :
        \* an update: every client open before it is sent the new content
        /\ \A c \in 1..Len(toolCalls') :
              Pushed(c) /\ toolCalls'[c].preview = Some(servers[sv].url) =>
                  /\ Len(servers'[sv].clients) = Len(servers[sv].clients)
                  /\ \A cl \in 1..Len(servers[sv].clients) :
                        servers'[sv].clients[cl].sent =
                            IF servers[sv].clients[cl].readyState = 1
                            THEN servers[sv].clients[cl].sent \o UpdateMessages(toolCalls'[c])
                            ELSE servers[sv].clients[cl].sent
        \* a connection: the client is sent the title, then the current content
        /\ Len(servers'[sv].clients) = Len(servers[sv].clients) + 1 =>
              servers'[sv].clients[Len(servers'[sv].clients)].sent =
                  <<TitleMessage(servers[sv].title)>> \o
                  (IF servers[sv].content # None THEN <<servers[sv].content[1]>> ELSE <<>>)

\* C21: updateMermaid sends the new content (after the new title, if one is
\* given) to every client whose socket is open at that moment and to no
\* other; a client that connects is sent the title and then the current
\* content; so, whatever the interleaving of connections, closes and
\* updates, the last content sent to an open client is the current content
\* of the server.
C21_UpdatesPushed == [](C21_Inv) /\ [][C21_Step]_vars

\* after two updates a client that was there from the start, sent the title,
\* both contents and the title of the second update, and a client that came
\* after them, sent the title and the content of the second update only
C21_Witness ==
    /\ Len(servers) = 1 /\ Len(servers[1].clients) = 2
    /\ servers[1].content = Some(MermaidMessage(DIAGRAM_PREFIX \o <<"1">>, SyntaxB))
    /\ servers[1].clients[1].readyState = 1 /\ servers[1].clients[2].readyState = 1
    /\ servers[1].clients[1].sent =
          <<TitleMessage(PREVIEW_TITLE),
            MermaidMessage(DIAGRAM_PREFIX \o <<"1">>, SyntaxA),
            TitleMessage(W_NodeA),
            MermaidMessage(DIAGRAM_PREFIX \o <<"1">>, SyntaxB)>>
    /\ servers[1].clients[2].sent =
          <<TitleMessage(W_NodeA), MermaidMessage(DIAGRAM_PREFIX \o <<"1">>, SyntaxB)>>

\* an update made while a client was closing: the client was sent nothing
ClosingClientSkipped ==
    /\ Len(servers) = 1 /\ Len(servers[1].clients) = 1
    /\ servers[1].clients[1].readyState = 2
    /\ servers[1].content = Some(MermaidMessage(DIAGRAM_PREFIX \o <<"1">>, SyntaxB))
    /\ servers[1].clients[1].sent =
          <<TitleMessage(PREVIEW_TITLE),
            MermaidMessage(DIAGRAM_PREFIX \o <<"1">>, SyntaxA)>>

=========================================================================
